---- MODULE Spec2Model ----
\* State-machine model of arras4_node: the session manager of the node
\* service (ArrasSessions / Session / ArrasController), the router's side of
\* the session handshake (NodeRouter::serviceToRouterProc), the node-to-node
\* connection tie-break (NodeRouter node filter / RemoteEndpoint) and the
\* per-endpoint send queue (RemoteEndpoint::queueEnvelope / sendThread).
EXTENDS Integers, Sequences, FiniteSets, TLC

\* ------------------------------------------------------------------ bounds
MaxCreates == 2      \* create requests issued over a behaviour
MaxConnects == 1     \* client connection attempts over a behaviour
MaxEndpoints == 3    \* node endpoints created over a behaviour
MaxEnvelopes == 3    \* envelopes queued to one endpoint over a behaviour
MaxPeers == 4        \* client and computation endpoints constructed over a behaviour
MaxTo == 2           \* destination addresses of a routed envelope
MaxEvents == 3       \* events pushed on the send-events queue over a behaviour
MaxTime == 1100      \* seconds of clock time over a behaviour
MaxModifyOps == 3     \* create and modify operations where nothing else runs
MaxOps == 2          \* create and modify operations started on one session
MaxSignals == 2      \* signal requests accepted by one session
MaxTagOps == 3       \* tag requests the node accepts over a behaviour
MaxServiceMsgs == 2  \* envelopes the service sends the router over a behaviour
MaxNodeMsgs == 3     \* envelopes a NODE peer sends over a behaviour
MaxClientConns == 2  \* client connections of one session over a behaviour
MaxClientEnvs == 3   \* envelopes routed to the session's client over a behaviour
MaxStops == 2        \* direct calls of ArrasNode::stopRunning over a behaviour
MaxNodeEvents == 2   \* events handed to the node's event queue over a behaviour
MaxConns == 2        \* connections made to the router's listen sockets over a behaviour

\* ------------------------------------------------------- finite carriers
SessionIds == {"s1"}
CompIds == {"a", "b"}
NodeIds == {1, 2}
Configs == {{"a"}, {"a", "b"}}
Addrs == {"p1", "p2", "p3"}     \* addresses a RemoteEndpoint can be allocated at
NoPeer == "null"                \* an empty RemoteEndpoint::Ptr
NullId == "null"                \* UUID::null
RouteNodeIds == {"n1", "n2", "n3"}
EventTypes == {"computationReady", "sessionExpired", "shutdownWithError"}
LocalNode == "n1"               \* the node that routes
Addresses == [node : RouteNodeIds \cup {NullId}, computation : CompIds \cup {NullId}]

HTTP_OK == 200
HTTP_NOT_FOUND == 404
HTTP_RESOURCE_CONFLICT == 409
HTTP_INTERNAL_SERVER_ERROR == 500
HTTP_BAD_REQUEST == 400
HTTP_TOO_MANY_REQUESTS == 429

mCountToBan == 5                \* BanList(countToBan = 5, ...)
mSecToUnBan == 300              \* BanList(..., secToUnBan = 300)
Sources == {"10.0.0.1"}         \* client addresses
NoEntry == [count |-> 0, timeStamp |-> 0]   \* no entry in mBanListMap
Delays == {150, 301}            \* seconds that pass between two requests
Computations == {"A", "B", "C"} \* computation ids, in UUID order
rank == [c \in Computations |-> CASE c = "A" -> 1 [] c = "B" -> 2 [] c = "C" -> 3]
CompConfigs == SUBSET Computations \ {{}}   \* SessionConfig::getComputations
SignalStatus == {"run", "engineReady"}
RouteSessions == {"s1", "s2"}   \* session ids in envelope addresses
EnvelopeClasses == {"data", "ControlMessage", "ExecutorHeartbeat"}
NodeEnvelopes == [session : RouteSessions, classId : EnvelopeClasses]
ClientConns == 1..MaxClientConns   \* client connections, in the order made
\* the callers of ArrasNode::stopRunning that call it directly: the HTTP
\* status request, the TERM/INT signal handler and the preemption monitor
DirectStopSources == {"status", "signal", "preemption"}
\* event types the event thread handles; only shutdownWithError stops the node
NodeEventTypes == {"shutdownWithError", "sessionExpired"}
\* connections to the router, in the order made; NoConn is an empty entry
Conns == 1..MaxConns
NoConn == 0
\* registration types of the connections: REGISTRATION_CLIENT,
\* REGISTRATION_EXECUTOR and REGISTRATION_CONTROL
RegTypes == {"client", "executor", "control"}
NoClient == 0                      \* findClientPeer found no client
RouteThreads == {"t1", "t2"}       \* threads that route to the client
TagNames == {"exclusive_user", "exclusive_production", "exclusive_team",
             "over_subscribe"}
Absent == "absent"              \* the object has no such member
TagValues == {"p", "true"}      \* a string, and the boolean true
TagObjects == [TagNames -> TagValues \cup {Absent}]
NoPair == [pc |-> "none", prior |-> [n \in TagNames |-> Absent], keys |-> {}]
Methods == {"GET", "PUT", "POST", "DELETE"}

VARIABLES
    \* ArrasSessions
    mClosed,            \* ArrasSessions::mClosed
    mSessions,          \* keys of ArrasSessions::mSessions
    \* Session (one object per id at a time)
    mState,             \* Session::mState
    mShuttingDown,      \* Session::mShuttingDown
    opThread,           \* what Session::mOperationThread is running
    opConfig,           \* the config handed to updateProc
    mComputations,      \* keys of Session::mComputations
    children,           \* child processes of the session that are alive
    mExpirationSet,     \* Session::mExpirationSet
    expThread,          \* Session::mExpirationThread is running expirationProc
    objSeq,             \* which create request constructed the Session object
    \* request handlers in flight
    createPc, modifyPc,
    nCreates,
    lastResp,           \* the last HTTP response given to a session request
    \* shutdownAll
    sdPc, sdTodo, sdCur, sdStage,
    timedOut,           \* some 30 s wait of a shutdown gave up
    \* ArrasController and the service <-> router IPC socket
    mRouterHasRoutingData,
    svcToRouter, routerToSvc,
    expiredEvents,      \* sessionExpired events raised for the Session object
    mEventQueue,        \* NodeService::mEventQueue (sessionExpired events)
    coordDeletes,       \* DELETE /sessions/<id> requests sent to the Coordinator
    \* router
    routingData,        \* RoutingTable has an entry for the session
    routerSeq,          \* create request of the last Initialize processed
    clientPeer,         \* PeerManager has a client endpoint for the session
    nConnects,
    connectedSeen,      \* the service handled "connected" for the live session
    \* node-to-node connections, per node
    mNodes,             \* PeerManager::mNodes: endpoints tracked for the other node
    dials,              \* connections from the other node waiting in the listen server
    nEndpoints,
    connectLog,         \* per node, what its node connect filter logged last
    \* one RemoteEndpoint's send side
    mMessageQueue,      \* RemoteEndpoint::mMessageQueue
    popped,             \* the envelope sendThread has popped and not yet sent
    sendPc,             \* where sendThread is
    mShutdown,          \* RemoteEndpoint::mShutdown
    mQueueShutdown,     \* mMessageQueue has been shut down
    nQueued,            \* calls of queueEnvelope so far
    enqueued,           \* every envelope pushed, in push order
    observed,           \* every envelope the receiving peer has read, in order
    \* the router's peer registry (PeerManager) and the endpoints it tracks
    mClients,           \* PeerManager::mClients: session id -> endpoint address
    mIpc,               \* PeerManager::mIpc: computation id -> endpoint address
    live,               \* addresses of the RemoteEndpoints that exist
    ident,              \* the id each endpoint was constructed and tracked with
    holders,            \* endpoints a routing thread holds a shared_ptr to
    mFlaggedForDestruction, \* endpoints whose mFlaggedForDestruction is set
    mEndpointsToDelete, \* ThreadedNodeRouter::mEndpointsToDelete (raw pointers)
    nPeers,             \* endpoints constructed so far
    \* routeMessage on one envelope
    rtPc,               \* "idle", or "routed" once the envelope is routed
    rtTo,               \* envelope.to() of the envelope routed
    rtEntry,            \* the session's entry node in the routing data
    rtClient,           \* findClientPeer found the session's client
    rtIpc,              \* the computations findIpcPeer found an endpoint for
    outClient,          \* envelopes queued to the client endpoint
    outStash,           \* envelopes stashed for the client
    outIpc,             \* envelopes queued per local computation endpoint
    outNode,            \* per remote node, the to-lists of the envelopes queued
    \* NodeService's send-events queue and its worker thread
    evQueue,            \* NodeService::mEventQueue, the events waiting
    evShutdown,         \* mEventQueue has been shut down
    mRunThreads,        \* NodeService::mRunThreads
    evPc,               \* where sendEventsProc is: "pop", "send" or "exit"
    evCur,              \* the event sendEventsProc popped
    requests,           \* Coordinator requests submitted, per event
    nEvents,            \* events pushed so far
    issued,             \* the events a Coordinator request was submitted for, in order
    \* the HTTP server's ban list
    now,                \* std::chrono::system_clock::now(), in seconds
    mBanListMap,        \* BanList::mBanListMap: source -> {count, timeStamp}
    tracked,            \* per source, the times of the requests its entry counts
    lastReq,            \* the HTTP request handled last
    lastCode,           \* and its response code
    \* one Session object and the Computations it owns
    sesState,           \* Session::mState
    sesComputations,    \* keys of Session::mComputations
    sesThread,          \* what Session::mOperationThread is running
    sesConfig,          \* the computations of the config given to updateProc
    sesOp,              \* the request that started the thread
    processState,       \* per computation id, Process::state()
    mSentGo,            \* Computation::mSentGo
    control,            \* per computation, the control messages sent to it
    terminateCalls,     \* per computation, calls of Process::terminate
    spawnCalls,         \* per computation, successful calls of Process::spawn
    opFailed,           \* sessionOperationFailed events raised
    nSignals,           \* signal("run") calls the session accepted
    nOps,               \* asyncUpdateConfig calls the session accepted
    sesResp,            \* the last request to the session and its http code
    \* ArrasNode's tags
    mNodeInfoTags,      \* ArrasNode::mNodeInfo["tags"]
    mNodeInfoIsUpdating, \* ArrasNode::mNodeInfoIsUpdating
    mNodeInfoUpdateThread, \* what mNodeInfoUpdateThread is running
    tagArg,             \* the tags argument the thread was started with
    tagCode,            \* the http code of the last tag request
    tagPair,            \* an updateTags(T) and the deleteTags(keys(T)) after it
    nTagOps,            \* tag requests accepted so far
    \* the router process and its connection from the service
    svcLink,            \* the service's socket: "none", "up" or "lost"
    mServiceEndpoint,   \* ThreadedNodeRouter::mServiceEndpoint is set
    svcInbox,           \* envelopes the service sent that are not read yet
    mServiceToRouterQueue, \* ThreadedNodeRouter::mServiceToRouterQueue
    svcSendQueue,       \* mMessageQueue of the service endpoint
    svcReceiveThread,   \* the service endpoint's receiveThread
    svcSendThread,      \* the service endpoint's sendThread
    svcFlagged,         \* the service endpoint's mFlaggedForDestruction
    svcToDelete,        \* the service endpoint is in mEndpointsToDelete
    mServiceDisconnected, \* ThreadedNodeRouter::mServiceDisconnected
    mRun,               \* NodeRouter::mRun
    mThread,            \* NodeRouter::mThread, running threadProc
    mServiceToRouterThread, \* running serviceToRouterProc
    mainPc,             \* where main of arras4_noderouter is
    nServiceMsgs,       \* envelopes the service has sent so far
    \* one PEER_NODE endpoint and what it receives
    nodeLink,           \* the peer's socket: "up" or "lost"
    nodeInbox,          \* envelopes the peer sent that are not read yet
    mRoutingTable,      \* sessions the RoutingTable has routing data for
    nodeLog,            \* what onEndpointActivity did with each envelope read
    nodeFlagged,        \* the endpoint's mFlaggedForDestruction
    nodeReceiveThread,  \* the endpoint's receiveThread: "poll" or "exited"
    nNodeMsgs,          \* envelopes the peer has sent so far
    \* the client of one session at its entry node, and the envelopes for it
    mClient,            \* mClients entry of the session: a connection or NoClient
    mPendingEnvelopes,  \* mPendingEnvelopes entry of the session
    clientQueue,        \* per client connection, the envelopes queued on its endpoint
    clientFlagged,      \* client endpoints flagged for destruction
    nClientConns,       \* client connections registered so far
    nClientEnvs,        \* envelopes for the client whose routing has started
    routePc,            \* per routing thread: "idle" or "found"
    routeEnv,           \* per routing thread, the envelope it is routing
    routeClient,        \* per routing thread, the client findClientPeer returned
    stashed,            \* every envelope ever stashed, in the order stashed
    \* a Session::signal call between its checkIsFree and what it does
    signalPc,           \* "none", or the status of a signal that has passed checkIsFree
    \* computations registering with the router, and the "go" each is sent
    ipcPc,              \* per computation, where the IPC connect filter is with it
    ipcTracked,         \* PeerManager::mIpc: computations with a registered endpoint
    readyToService,     \* ComputationStatusMessages on their way to the service
    readyEvents,        \* computations whose computationReady event was raised
    goToRouter,         \* "go" control messages on their way to the router
    goQueued,           \* computations whose "go" was queued on their endpoint
    goNotFound,         \* computations whose "go" found no endpoint
    runSignalled,       \* the Coordinator has signalled "run"
    \* one client endpoint and the disconnect notifications it gives rise to
    cliLink,            \* the client's socket: "up" or "closed"
    cliInbox,           \* "disconnect" control messages sent and not read yet
    cliSentDisconnect,  \* the client has sent its "disconnect"
    cliSendQueue,       \* envelopes on the endpoint's send queue
    cliReceiveThread,   \* the endpoint's receiveThread: "run" or "exited"
    cliSendThread,      \* the endpoint's sendThread: "run" or "exited"
    cliFlagged,         \* the endpoint's mFlaggedForDestruction
    cliDestroyed,       \* the endpoint has been destroyed
    statusToService,    \* disconnect notifications on their way to the service
    nDisconnectedNotified,\* notifyClientDisconnected calls so far
    disconnectedEvents, \* sessionClientDisconnected events raised
    terminateRequests,  \* session delete requests sent to the Coordinator
    \* ArrasNode::run and ArrasNode::stopRunning
    nodeRunFlag,        \* ArrasNode::mRun
    runPc,              \* position of the main thread in ArrasNode::run
    stopRequested,      \* callers that have called stopRunning
    nStops,             \* direct calls of stopRunning made
    nodeEventQueue,     \* NodeService::mEventQueue, event types
    nNodeEvents,        \* events handed to NodeService::handleEvent
    \* the accept loop and the endpoints of the connections it is offered
    connReg,            \* registration type each connection sends
    connState,          \* none, pending, tracked, refused, released, destroyed
    connUp,             \* the remote side of the connection is there
    epFlagged,          \* RemoteEndpoint::mFlaggedForDestruction
    acceptToDelete,     \* ThreadedNodeRouter::mEndpointsToDelete
    epReceiveThread,    \* RemoteEndpoint::mReceiveThread: none, run, exited
    epSendThread,       \* RemoteEndpoint::mSendThread: none, run, exited
    accClient,          \* PeerManager::mClients entry of the session
    accIpc,             \* PeerManager::mIpc entry of the computation
    accServiceEndpoint, \* ThreadedNodeRouter::mServiceEndpoint
    accServiceDisconnected,\* ThreadedNodeRouter::mServiceDisconnected
    accRun,             \* NodeRouter::mRun
    accPc,              \* position of NodeRouter::threadProc in its loop
    accHeld,            \* a routing thread holds a Ptr to the endpoint
    queuedCount,        \* times the endpoint was pushed on mEndpointsToDelete
    destroyedBy         \* the thread that ran ~RemoteEndpoint: sweep, filter, routing

sessVars == <<mClosed, mSessions, mState, mShuttingDown, opThread, opConfig,
              mComputations, children, mExpirationSet, expThread, objSeq,
              createPc, modifyPc, nCreates, lastResp,
              sdPc, sdTodo, sdCur, sdStage, timedOut,
              mRouterHasRoutingData, svcToRouter, routerToSvc, expiredEvents,
              mEventQueue, coordDeletes, routingData, routerSeq, clientPeer, nConnects, connectedSeen>>

nodeVars == <<mNodes, dials, nEndpoints, connectLog>>
queueVars ==
    <<mMessageQueue, popped, sendPc, mShutdown, mQueueShutdown, enqueued,
      observed, nQueued>>
peerVars ==
    <<mClients, mIpc, live, ident, holders, mFlaggedForDestruction,
      mEndpointsToDelete, nPeers>>
routeVars ==
    <<rtPc, rtTo, rtEntry, rtClient, rtIpc, outClient, outStash, outIpc, outNode>>
eventVars ==
    <<evQueue, evShutdown, mRunThreads, evPc, evCur, requests, nEvents, issued>>
banVars == <<now, mBanListMap, tracked, lastReq, lastCode>>
compVars ==
    <<sesState, sesComputations, sesThread, sesConfig, sesOp, processState,
      mSentGo, control, terminateCalls, spawnCalls, opFailed, nSignals, nOps,
      sesResp>>
tagVars ==
    <<mNodeInfoTags, mNodeInfoIsUpdating, mNodeInfoUpdateThread, tagArg,
      tagCode, tagPair, nTagOps>>
exitVars ==
    <<svcLink, mServiceEndpoint, svcInbox, mServiceToRouterQueue, svcSendQueue,
      svcReceiveThread, svcSendThread, svcFlagged, svcToDelete,
      mServiceDisconnected, mRun, mThread, mServiceToRouterThread, mainPc,
      nServiceMsgs>>
recvVars ==
    <<nodeLink, nodeInbox, mRoutingTable, nodeLog, nodeFlagged,
      nodeReceiveThread, nNodeMsgs>>
stashVars ==
    <<mClient, mPendingEnvelopes, clientQueue, clientFlagged, nClientConns,
      nClientEnvs, routePc, routeEnv, routeClient, stashed>>
signalVars ==
    <<signalPc>>
readyVars ==
    <<ipcPc, ipcTracked, readyToService, readyEvents, goToRouter, goQueued,
      goNotFound, runSignalled>>
discoVars ==
    <<cliLink, cliInbox, cliSentDisconnect, cliSendQueue, cliReceiveThread,
      cliSendThread, cliFlagged, cliDestroyed, statusToService,
      nDisconnectedNotified, disconnectedEvents, terminateRequests>>
runVars ==
    <<nodeRunFlag, runPc, stopRequested, nStops, nodeEventQueue, nNodeEvents>>
acceptVars ==
    <<connReg, connState, connUp, epFlagged, acceptToDelete, epReceiveThread, epSendThread, accClient, accIpc, accServiceEndpoint, accServiceDisconnected, accRun, accPc, accHeld, queuedCount, destroyedBy>>
restVars ==
    <<peerVars, routeVars, eventVars, banVars, compVars, tagVars, exitVars,
      recvVars,
      stashVars,
      signalVars,
      readyVars,
      discoVars,
      runVars,
      acceptVars>>
notPeerVars ==
    <<sessVars, nodeVars, queueVars, routeVars, eventVars, banVars, compVars, tagVars,
      exitVars, recvVars, stashVars, signalVars, readyVars, discoVars, runVars, acceptVars>>
notRouteVars ==
    <<sessVars, nodeVars, queueVars, peerVars, eventVars, banVars, compVars, tagVars,
      exitVars, recvVars, stashVars, signalVars, readyVars, discoVars, runVars, acceptVars>>
notEventVars ==
    <<sessVars, nodeVars, queueVars, peerVars, routeVars, banVars, compVars, tagVars,
      exitVars, recvVars, stashVars, signalVars, readyVars, discoVars, runVars, acceptVars>>
notBanVars ==
    <<sessVars, nodeVars, queueVars, peerVars, routeVars, eventVars, compVars, tagVars,
      exitVars, recvVars, stashVars, signalVars, readyVars, discoVars, runVars, acceptVars>>
notCompVars ==
    <<sessVars, nodeVars, queueVars, peerVars, routeVars, eventVars, banVars,
      tagVars,
      exitVars, recvVars, stashVars, signalVars, readyVars, discoVars, runVars, acceptVars>>
notTagVars ==
    <<sessVars, nodeVars, queueVars, peerVars, routeVars, eventVars, banVars,
      compVars,
      exitVars, recvVars, stashVars, signalVars, readyVars, discoVars, runVars, acceptVars>>
notExitVars ==
    <<sessVars, nodeVars, queueVars, peerVars, routeVars, eventVars, banVars,
      compVars, tagVars, recvVars, stashVars, signalVars, readyVars, discoVars, runVars, acceptVars>>
notRecvVars ==
    <<sessVars, nodeVars, queueVars, peerVars, routeVars, eventVars, banVars,
      compVars, tagVars, exitVars, stashVars, signalVars, readyVars, discoVars, runVars, acceptVars>>
notStashVars ==
    <<sessVars, nodeVars, queueVars, peerVars, routeVars, eventVars, banVars, compVars, tagVars, exitVars, recvVars, signalVars, readyVars, discoVars, runVars, acceptVars>>
notSignalVars ==
    <<sessVars, nodeVars, queueVars, peerVars, routeVars, eventVars, banVars, compVars, tagVars, exitVars, recvVars, stashVars, readyVars, discoVars, runVars, acceptVars>>
notReadyVars ==
    <<sessVars, nodeVars, queueVars, peerVars, routeVars, eventVars, banVars, compVars, tagVars, exitVars, recvVars, stashVars, signalVars, discoVars, runVars, acceptVars>>
notDiscoVars ==
    <<sessVars, nodeVars, queueVars, peerVars, routeVars, eventVars, banVars, compVars, tagVars, exitVars, recvVars, stashVars, signalVars, readyVars, runVars, acceptVars>>
notRunVars ==
    <<sessVars, nodeVars, queueVars, peerVars, routeVars, eventVars, banVars, compVars, tagVars, exitVars, recvVars, stashVars, signalVars, readyVars, discoVars, acceptVars>>
notAcceptVars ==
    <<sessVars, nodeVars, queueVars, peerVars, routeVars, eventVars, banVars, compVars, tagVars, exitVars, recvVars, stashVars, signalVars, readyVars, discoVars, runVars>>
netVars == <<nodeVars, queueVars, restVars>>

vars == <<sessVars, nodeVars, queueVars, restVars>>

sdVars == <<sdPc, sdTodo, sdCur, sdStage, timedOut>>
rtrVars == <<routingData, routerSeq, clientPeer, nConnects>>
chanVars == <<svcToRouter, routerToSvc>>
evtVars == <<expiredEvents, mEventQueue, coordDeletes>>
expVars == <<mExpirationSet, expThread, evtVars>>
opVars == <<opThread, opConfig>>
objVars == <<mState, mShuttingDown, mComputations, children, objSeq>>

\* ------------------------------------------------------------ Init
Init ==
    /\ mClosed = FALSE
    /\ mSessions = {}
    /\ mState = [s \in SessionIds |-> "Free"]
    /\ mShuttingDown = [s \in SessionIds |-> FALSE]
    /\ opThread = [s \in SessionIds |-> "none"]
    /\ opConfig = [s \in SessionIds |-> {}]
    /\ mComputations = [s \in SessionIds |-> {}]
    /\ children = [s \in SessionIds |-> {}]
    /\ mExpirationSet = [s \in SessionIds |-> FALSE]
    /\ expThread = [s \in SessionIds |-> FALSE]
    /\ objSeq = [s \in SessionIds |-> 0]
    /\ createPc = [s \in SessionIds |-> "idle"]
    /\ modifyPc = [s \in SessionIds |-> "idle"]
    /\ nCreates = 0
    /\ lastResp = [op |-> "none", code |-> 0]
    /\ sdPc = "idle"
    /\ sdTodo = {}
    /\ sdCur = "none"
    /\ sdStage = "none"
    /\ timedOut = FALSE
    /\ mRouterHasRoutingData = [s \in SessionIds |-> FALSE]
    /\ svcToRouter = <<>>
    /\ routerToSvc = <<>>
    /\ expiredEvents = [s \in SessionIds |-> 0]
    /\ mEventQueue = <<>>
    /\ coordDeletes = [s \in SessionIds |-> 0]
    /\ routingData = [s \in SessionIds |-> FALSE]
    /\ routerSeq = [s \in SessionIds |-> 0]
    /\ clientPeer = [s \in SessionIds |-> FALSE]
    /\ nConnects = 0
    /\ connectedSeen = [s \in SessionIds |-> FALSE]
    /\ mNodes = [n \in NodeIds |-> {}]
    /\ dials = [n \in NodeIds |-> 0]
    /\ nEndpoints = 0
    /\ connectLog = [n \in NodeIds |-> "none"]
    /\ mMessageQueue = <<>>
    /\ popped = <<>>
    /\ sendPc = "pop"
    /\ mShutdown = FALSE
    /\ mQueueShutdown = FALSE
    /\ nQueued = 0
    /\ enqueued = <<>>
    /\ observed = <<>>
    /\ mClients = [s \in SessionIds |-> NoPeer]
    /\ mIpc = [c \in CompIds |-> NoPeer]
    /\ live = {}
    /\ ident = [a \in Addrs |-> <<"none", "none">>]
    /\ holders = {}
    /\ mFlaggedForDestruction = {}
    /\ mEndpointsToDelete = <<>>
    /\ nPeers = 0
    /\ rtPc = "idle"
    /\ rtTo = <<>>
    /\ rtEntry = LocalNode
    /\ rtClient = FALSE
    /\ rtIpc = {}
    /\ outClient = 0
    /\ outStash = 0
    /\ outIpc = [c \in CompIds |-> 0]
    /\ outNode = [n \in RouteNodeIds |-> <<>>]
    /\ evQueue = <<>>
    /\ evShutdown = FALSE
    /\ mRunThreads = TRUE
    /\ evPc = "pop"
    /\ evCur = <<>>
    /\ requests = [e \in 1..MaxEvents |-> 0]
    /\ nEvents = 0
    /\ issued = <<>>
    /\ now = 0
    /\ mBanListMap = [a \in Sources |-> NoEntry]
    /\ tracked = [a \in Sources |-> <<>>]
    /\ lastReq = [source |-> "none", method |-> "none", mapped |-> FALSE]
    /\ lastCode = 0
    /\ sesState = "Free"
    /\ sesComputations = {}
    /\ sesThread = "none"
    /\ sesConfig = {}
    /\ sesOp = "none"
    /\ processState = [c \in Computations |-> "NotSpawned"]
    /\ mSentGo = [c \in Computations |-> FALSE]
    /\ control = [c \in Computations |-> <<>>]
    /\ terminateCalls = [c \in Computations |-> 0]
    /\ spawnCalls = [c \in Computations |-> 0]
    /\ opFailed = 0
    /\ nSignals = 0
    /\ nOps = 0
    /\ sesResp = [op |-> "none", code |-> 0]
    /\ mNodeInfoTags = [n \in TagNames |-> Absent]
    /\ mNodeInfoIsUpdating = FALSE
    /\ mNodeInfoUpdateThread = "none"
    /\ tagArg = [n \in TagNames |-> Absent]
    /\ tagCode = 0
    /\ tagPair = NoPair
    /\ nTagOps = 0
    /\ svcLink = "none"
    /\ mServiceEndpoint = FALSE
    /\ svcInbox = 0
    /\ mServiceToRouterQueue = 0
    /\ svcSendQueue = 0
    /\ svcReceiveThread = "none"
    /\ svcSendThread = "none"
    /\ svcFlagged = FALSE
    /\ svcToDelete = FALSE
    /\ mServiceDisconnected = FALSE
    /\ mRun = 1
    /\ mThread = "run"
    /\ mServiceToRouterThread = "run"
    /\ mainPc = "waitForServiceDisconnected"
    /\ nServiceMsgs = 0
    /\ nodeLink = "up"
    /\ nodeInbox = <<>>
    /\ mRoutingTable = {}
    /\ nodeLog = <<>>
    /\ nodeFlagged = FALSE
    /\ nodeReceiveThread = "poll"
    /\ nNodeMsgs = 0
    /\ mClient = NoClient
    /\ mPendingEnvelopes = <<>>
    /\ clientQueue = [c \in ClientConns |-> <<>>]
    /\ clientFlagged = {}
    /\ nClientConns = 0
    /\ nClientEnvs = 0
    /\ routePc = [t \in RouteThreads |-> "idle"]
    /\ routeEnv = [t \in RouteThreads |-> 0]
    /\ routeClient = [t \in RouteThreads |-> NoClient]
    /\ stashed = <<>>
    /\ signalPc = "none"
    /\ ipcPc = [c \in Computations |-> "none"]
    /\ ipcTracked = {}
    /\ readyToService = <<>>
    /\ readyEvents = {}
    /\ goToRouter = {}
    /\ goQueued = {}
    /\ goNotFound = {}
    /\ runSignalled = FALSE
    /\ cliLink = "up"
    /\ cliInbox = 0
    /\ cliSentDisconnect = FALSE
    /\ cliSendQueue = 0
    /\ cliReceiveThread = "run"
    /\ cliSendThread = "run"
    /\ cliFlagged = FALSE
    /\ cliDestroyed = FALSE
    /\ statusToService = 0
    /\ nDisconnectedNotified = 0
    /\ disconnectedEvents = 0
    /\ terminateRequests = 0
    /\ nodeRunFlag = FALSE
    /\ runPc = "notStarted"
    /\ stopRequested = {}
    /\ nStops = 0
    /\ nodeEventQueue = <<>>
    /\ nNodeEvents = 0
    /\ connReg = [c \in Conns |-> "none"]
    /\ connState = [c \in Conns |-> "none"]
    /\ connUp = [c \in Conns |-> FALSE]
    /\ epFlagged = [c \in Conns |-> FALSE]
    /\ acceptToDelete = <<>>
    /\ epReceiveThread = [c \in Conns |-> "none"]
    /\ epSendThread = [c \in Conns |-> "none"]
    /\ accClient = NoConn
    /\ accIpc = NoConn
    /\ accServiceEndpoint = NoConn
    /\ accServiceDisconnected = FALSE
    /\ accRun = 1
    /\ accPc = "poll"
    /\ accHeld = [c \in Conns |-> FALSE]
    /\ queuedCount = [c \in Conns |-> 0]
    /\ destroyedBy = [c \in Conns |-> "none"]

\* mSessionsMutex is held by shutdownAll for the whole of its loop
SessionsMutexFree == sdPc # "running"

Resp(op, code) == [op |-> op, code |-> code]

\* ------------------------------------------------------------ Session
\* variants of the state checks, each dropping one test
checkState_NoShuttingDownTest(s) ==
    IF mState[s] = "Busy" THEN HTTP_RESOURCE_CONFLICT
    ELSE IF mState[s] = "Defunct" THEN HTTP_RESOURCE_CONFLICT
    ELSE 0

checkState_NoBusyTest(s) ==
    IF mShuttingDown[s] THEN HTTP_INTERNAL_SERVER_ERROR
    ELSE IF mState[s] = "Defunct" THEN HTTP_RESOURCE_CONFLICT
    ELSE 0

checkState_NoDefunctTest(s) ==
    IF mShuttingDown[s] THEN HTTP_INTERNAL_SERVER_ERROR
    ELSE IF mState[s] = "Busy" THEN HTTP_RESOURCE_CONFLICT
    ELSE 0

\* the state checks at the head of asyncUpdateConfig and asyncDelete:
\* 0 when the operation may start, else the http code of the SessionError
checkState(s) ==
    IF mShuttingDown[s] THEN HTTP_INTERNAL_SERVER_ERROR
    ELSE IF mState[s] = "Busy" THEN HTTP_RESOURCE_CONFLICT
    ELSE IF mState[s] = "Defunct" THEN HTTP_RESOURCE_CONFLICT
    ELSE 0

\* Session::getConfigDelta
newComps(s, cfg) == cfg \ mComputations[s]
defunctComps(s, cfg) == mComputations[s] \ cfg

\* ------------------------------------------------------------ createSession
\* the unlocked test of mClosed at the head of createSession
CreateCheckClosed(s) ==
    /\ createPc[s] = "idle"
    /\ nCreates < MaxCreates
    /\ nCreates' = nCreates + 1
    /\ IF mClosed
       THEN /\ lastResp' = Resp("create", HTTP_RESOURCE_CONFLICT)
            /\ UNCHANGED createPc
       ELSE /\ createPc' = [createPc EXCEPT ![s] = "checked"]
            /\ UNCHANGED lastResp
    /\ UNCHANGED <<netVars, mClosed, mSessions, objVars, opVars, expVars, modifyPc,
                   sdVars, mRouterHasRoutingData, chanVars, rtrVars,
                   connectedSeen>>

\* a createSession that would put a fresh Session in place of a Defunct one
CreateInsert_ReuseDefunct(s) ==
    /\ createPc[s] = "checked"
    /\ SessionsMutexFree
    /\ IF s \in mSessions /\ mState[s] # "Defunct"
       THEN /\ lastResp' = Resp("create", HTTP_RESOURCE_CONFLICT)
            /\ createPc' = [createPc EXCEPT ![s] = "idle"]
            /\ UNCHANGED <<mSessions, objVars, svcToRouter, connectedSeen,
                           expiredEvents>>
       ELSE /\ mSessions' = mSessions \cup {s}
            /\ expiredEvents' = [expiredEvents EXCEPT ![s] = 0]
            /\ mState' = [mState EXCEPT ![s] = "Free"]
            /\ mShuttingDown' = [mShuttingDown EXCEPT ![s] = FALSE]
            /\ mComputations' = [mComputations EXCEPT ![s] = {}]
            /\ objSeq' = [objSeq EXCEPT ![s] = nCreates]
            /\ connectedSeen' = [connectedSeen EXCEPT ![s] = FALSE]
            /\ svcToRouter' = Append(svcToRouter,
                   [type |-> "Initialize", sid |-> s, seq |-> nCreates])
            /\ createPc' = [createPc EXCEPT ![s] = "waitAck"]
            /\ UNCHANGED <<lastResp, children>>
    /\ UNCHANGED <<netVars, mClosed, opVars, mExpirationSet, expThread, mEventQueue,
                   coordDeletes, modifyPc, nCreates, sdVars,
                   mRouterHasRoutingData, routerToSvc, rtrVars>>

\* lookup and insert under mSessionsMutex, then the send of
\* SessionRoutingData{Initialize} that opens initializeSession
CreateInsert(s) ==
    /\ createPc[s] = "checked"
    /\ SessionsMutexFree
    /\ IF s \in mSessions
       THEN /\ lastResp' = Resp("create", HTTP_RESOURCE_CONFLICT)
            /\ createPc' = [createPc EXCEPT ![s] = "idle"]
            /\ UNCHANGED <<mSessions, objVars, svcToRouter, connectedSeen,
                           expiredEvents>>
       ELSE /\ mSessions' = mSessions \cup {s}
            /\ expiredEvents' = [expiredEvents EXCEPT ![s] = 0]
            /\ mState' = [mState EXCEPT ![s] = "Free"]
            /\ mShuttingDown' = [mShuttingDown EXCEPT ![s] = FALSE]
            /\ mComputations' = [mComputations EXCEPT ![s] = {}]
            /\ objSeq' = [objSeq EXCEPT ![s] = nCreates]
            /\ connectedSeen' = [connectedSeen EXCEPT ![s] = FALSE]
            /\ svcToRouter' = Append(svcToRouter,
                   [type |-> "Initialize", sid |-> s, seq |-> nCreates])
            /\ createPc' = [createPc EXCEPT ![s] = "waitAck"]
            /\ UNCHANGED <<lastResp, children>>
    /\ UNCHANGED <<netVars, mClosed, opVars, mExpirationSet, expThread, mEventQueue,
                   coordDeletes, modifyPc, nCreates, sdVars,
                   mRouterHasRoutingData, routerToSvc, rtrVars>>

\* initializeSession gives up after WAIT_FOR_ROUTER_HAS_ROUTING with the
\* flag still unset: createSession goes on to erase the session
CreateInitTimeout(s) ==
    /\ createPc[s] = "waitAck"
    /\ ~mRouterHasRoutingData[s]
    /\ createPc' = [createPc EXCEPT ![s] = "erasing"]
    /\ lastResp' = Resp("create", HTTP_INTERNAL_SERVER_ERROR)
    /\ UNCHANGED <<netVars, mClosed, mSessions, objVars, opVars, expVars, modifyPc,
                   nCreates, sdVars, mRouterHasRoutingData, chanVars, rtrVars,
                   connectedSeen>>

\* initializeSession returns true; setExpirationTime on the entry node;
\* asyncUpdateConfig either starts updateProc or throws
CreateProceed(s, cfg, entry) ==
    /\ createPc[s] = "waitAck"
    /\ mRouterHasRoutingData[s]
    /\ IF entry
       THEN /\ mExpirationSet' = [mExpirationSet EXCEPT ![s] = TRUE]
            /\ expThread' = [expThread EXCEPT ![s] = TRUE]
       ELSE UNCHANGED <<mExpirationSet, expThread>>
    /\ IF checkState(s) = 0
       THEN /\ mState' = [mState EXCEPT ![s] = "Busy"]
            /\ opThread' = [opThread EXCEPT ![s] = "updateProc"]
            /\ opConfig' = [opConfig EXCEPT ![s] = cfg]
            /\ createPc' = [createPc EXCEPT ![s] = "idle"]
            /\ lastResp' = Resp("create", HTTP_OK)
       ELSE /\ createPc' = [createPc EXCEPT ![s] = "erasing"]
            /\ lastResp' = Resp("create", checkState(s))
            /\ UNCHANGED <<mState, opVars>>
    /\ UNCHANGED <<netVars, mClosed, mSessions, mShuttingDown, mComputations, children,
                   objSeq, evtVars, modifyPc, nCreates, sdVars,
                   mRouterHasRoutingData, chanVars, rtrVars, connectedSeen>>

\* mSessions.erase(id) under mSessionsMutex on either failure path
CreateErase(s) ==
    /\ createPc[s] = "erasing"
    /\ SessionsMutexFree
    /\ mSessions' = mSessions \ {s}
    /\ createPc' = [createPc EXCEPT ![s] = "erased"]
    /\ UNCHANGED <<netVars, mClosed, objVars, opVars, expVars, modifyPc, nCreates,
                   lastResp, sdVars, mRouterHasRoutingData, chanVars, rtrVars,
                   connectedSeen>>

\* the last reference to the erased Session goes: ~Session joins the
\* operation thread and stops the expiration; the Computation objects go
\* with it, their processes terminated or not by the process manager
DestroySession(s, kill) ==
    /\ createPc[s] = "erased"
    /\ opThread[s] = "none"
    /\ modifyPc[s] # "got"
    /\ mShuttingDown' = [mShuttingDown EXCEPT ![s] = TRUE]
    /\ mExpirationSet' = [mExpirationSet EXCEPT ![s] = FALSE]
    /\ expThread' = [expThread EXCEPT ![s] = FALSE]
    /\ mComputations' = [mComputations EXCEPT ![s] = {}]
    /\ children' = [children EXCEPT ![s] = IF kill THEN {} ELSE @]
    /\ createPc' = [createPc EXCEPT ![s] = "idle"]
    /\ UNCHANGED <<netVars, mClosed, mSessions, mState, objSeq, opVars, evtVars,
                   modifyPc, nCreates, lastResp, sdVars,
                   mRouterHasRoutingData, chanVars, rtrVars, connectedSeen>>

\* ------------------------------------------------------------ modifySession
\* the test of mClosed, then getSession(id), which takes mSessionsMutex
ModifyGetSession(s) ==
    /\ modifyPc[s] = "idle"
    /\ IF mClosed
       THEN /\ lastResp' = Resp("modify", HTTP_RESOURCE_CONFLICT)
            /\ UNCHANGED modifyPc
       ELSE /\ SessionsMutexFree
            /\ IF s \in mSessions
               THEN /\ modifyPc' = [modifyPc EXCEPT ![s] = "got"]
                    /\ UNCHANGED lastResp
               ELSE /\ lastResp' = Resp("modify", HTTP_NOT_FOUND)
                    /\ UNCHANGED modifyPc
    /\ UNCHANGED <<netVars, mClosed, mSessions, objVars, opVars, expVars, createPc,
                   nCreates, sdVars, mRouterHasRoutingData, chanVars, rtrVars,
                   connectedSeen>>

\* Session::asyncUpdateConfig called by modifySession
asyncUpdateConfig(s, cfg) ==
    /\ modifyPc[s] = "got"
    /\ modifyPc' = [modifyPc EXCEPT ![s] = "idle"]
    /\ IF checkState(s) = 0
       THEN /\ mState' = [mState EXCEPT ![s] = "Busy"]
            /\ opThread' = [opThread EXCEPT ![s] = "updateProc"]
            /\ opConfig' = [opConfig EXCEPT ![s] = cfg]
            /\ lastResp' = Resp("modify", HTTP_OK)
       ELSE /\ lastResp' = Resp("modify", checkState(s))
            /\ UNCHANGED <<mState, opVars>>
    /\ UNCHANGED <<netVars, mClosed, mSessions, mShuttingDown, mComputations, children,
                   objSeq, expVars, createPc, nCreates, sdVars,
                   mRouterHasRoutingData, chanVars, rtrVars, connectedSeen>>

\* ------------------------------------------------------------ deleteSession
\* deleteSession holds mSessionsMutex across the lookup and asyncDelete
deleteSession(s) ==
    /\ SessionsMutexFree
    /\ IF s \notin mSessions
       THEN /\ lastResp' = Resp("delete", HTTP_NOT_FOUND)
            /\ UNCHANGED <<mState, opVars>>
       ELSE IF checkState(s) = 0
       THEN /\ mState' = [mState EXCEPT ![s] = "Busy"]
            /\ opThread' = [opThread EXCEPT ![s] = "deleteProc"]
            /\ lastResp' = Resp("delete", HTTP_OK)
            /\ UNCHANGED opConfig
       ELSE /\ lastResp' = Resp("delete", checkState(s))
            /\ UNCHANGED <<mState, opVars>>
    /\ UNCHANGED <<netVars, mClosed, mSessions, mShuttingDown, mComputations, children,
                   objSeq, mExpirationSet, expThread, expiredEvents,
                   mEventQueue, createPc, modifyPc, nCreates, sdVars,
                   mRouterHasRoutingData, chanVars, rtrVars, connectedSeen>>

\* a delete request from any caller
DELETE_session(s) ==
    /\ deleteSession(s)
    /\ UNCHANGED coordDeletes

\* the Coordinator answers a DELETE /sessions/<id> it was sent with a
\* delete request to the node
CoordinatorDelete(s) ==
    /\ coordDeletes[s] > 0
    /\ coordDeletes' = [coordDeletes EXCEPT ![s] = @ - 1]
    /\ deleteSession(s)

\* ------------------------------------------------------------ operation threads
\* what applyNewConfig leaves running: the defunct computations are stopped
\* (or one of them outlives the 30 s wait and nothing is started), then the
\* new ones are spawned (or the first spawn fails)
applyNewConfig(s, outcome) ==
    LET cfg == opConfig[s] IN
    CASE outcome = "ok" ->
           /\ children' = [children EXCEPT ![s] =
                              (@ \ defunctComps(s, cfg)) \cup newComps(s, cfg)]
           /\ mComputations' = [mComputations EXCEPT ![s] =
                              @ \cup newComps(s, cfg)]
      [] outcome = "stopTimeout" ->
           /\ defunctComps(s, cfg) \cap children[s] # {}
           /\ UNCHANGED <<children, mComputations>>
      [] outcome = "spawnFail" ->
           /\ newComps(s, cfg) # {}
           /\ children' = [children EXCEPT ![s] = @ \ defunctComps(s, cfg)]
           /\ UNCHANGED mComputations

updateProc(s, outcome) ==
    /\ opThread[s] = "updateProc"
    /\ applyNewConfig(s, outcome)
    /\ mState' = [mState EXCEPT ![s] = IF @ = "Busy" THEN "Free" ELSE @]
    /\ opThread' = [opThread EXCEPT ![s] = "none"]
    /\ UNCHANGED <<netVars, mClosed, mSessions, mShuttingDown, objSeq, opConfig,
                   expVars, createPc, modifyPc, nCreates, lastResp, sdVars,
                   mRouterHasRoutingData, chanVars, rtrVars, connectedSeen>>

\* ArrasController::shutdownSession: kick the client, release routing data
shutdownSession(s) ==
    svcToRouter' = svcToRouter \o
        << [type |-> "Kick", sid |-> s, seq |-> 0],
           [type |-> "Delete", sid |-> s, seq |-> 0] >>

\* the body of deleteProc: every computation is told to stop and waited
\* for (a computation may outlive the wait), then mState becomes Defunct
deleteProcBody(s, stopped) ==
    /\ children' = [children EXCEPT ![s] = IF stopped THEN {} ELSE @]
    /\ shutdownSession(s)
    /\ mState' = [mState EXCEPT ![s] = "Defunct"]

deleteProc(s, stopped) ==
    /\ opThread[s] = "deleteProc"
    /\ stopped \/ children[s] # {}
    /\ deleteProcBody(s, stopped)
    /\ opThread' = [opThread EXCEPT ![s] = "none"]
    /\ UNCHANGED <<netVars, mClosed, mSessions, mShuttingDown, mComputations, objSeq,
                   opConfig, expVars, createPc, modifyPc, nCreates, lastResp,
                   sdVars, mRouterHasRoutingData, routerToSvc, rtrVars,
                   connectedSeen>>

\* ------------------------------------------------------------ shutdownAll
\* mClosed = true, then mSessionsMutex is taken for the whole loop
shutdownAll ==
    /\ sdPc = "idle"
    /\ mClosed' = TRUE
    /\ sdPc' = "running"
    /\ sdTodo' = mSessions
    /\ UNCHANGED <<netVars, mSessions, objVars, opVars, expVars, createPc, modifyPc,
                   nCreates, lastResp, sdCur, sdStage, timedOut,
                   mRouterHasRoutingData, chanVars, rtrVars, connectedSeen>>

\* syncShutdown: mShuttingDown is set and the wait on Busy begins
syncShutdown(s) ==
    /\ sdPc = "running"
    /\ sdCur = "none"
    /\ s \in sdTodo
    /\ sdTodo' = sdTodo \ {s}
    /\ sdCur' = s
    /\ sdStage' = "wait"
    /\ mShuttingDown' = [mShuttingDown EXCEPT ![s] = TRUE]
    /\ UNCHANGED <<netVars, mClosed, mSessions, mState, mComputations, children,
                   objSeq, opVars, expVars, createPc, modifyPc, nCreates,
                   lastResp, sdPc, timedOut, mRouterHasRoutingData, chanVars,
                   rtrVars, connectedSeen>>

\* the wait on mOperationComplete reaches endtime with the session still
\* Busy: syncShutdown throws and shutdownAll goes on to the next session
SyncShutdownTimeout(s) ==
    /\ sdCur = s
    /\ sdStage = "wait"
    /\ mState[s] = "Busy"
    /\ sdCur' = "none"
    /\ sdStage' = "none"
    /\ timedOut' = TRUE
    /\ UNCHANGED <<netVars, mClosed, mSessions, objVars, opVars, expVars, createPc,
                   modifyPc, nCreates, lastResp, sdPc, sdTodo,
                   mRouterHasRoutingData, chanVars, rtrVars, connectedSeen>>

\* the session is not Busy: the operation thread is joined and deleteProc
\* is entered on the caller's thread
SyncShutdownRun(s) ==
    /\ sdCur = s
    /\ sdStage = "wait"
    /\ mState[s] # "Busy"
    /\ opThread[s] = "none"
    /\ sdStage' = "deleteProc"
    /\ UNCHANGED <<netVars, mClosed, mSessions, objVars, opVars, expVars, createPc,
                   modifyPc, nCreates, lastResp, sdPc, sdTodo, sdCur, timedOut,
                   mRouterHasRoutingData, chanVars, rtrVars, connectedSeen>>

\* deleteProc run to its end by syncShutdown
SyncShutdownDeleteProc(s, stopped) ==
    /\ sdCur = s
    /\ sdStage = "deleteProc"
    /\ stopped \/ children[s] # {}
    /\ deleteProcBody(s, stopped)
    /\ timedOut' = (timedOut \/ ~stopped)
    /\ sdCur' = "none"
    /\ sdStage' = "none"
    /\ UNCHANGED <<netVars, mClosed, mSessions, mShuttingDown, mComputations, objSeq,
                   opVars, expVars, createPc, modifyPc, nCreates, lastResp,
                   sdPc, sdTodo, mRouterHasRoutingData, routerToSvc, rtrVars,
                   connectedSeen>>

\* the loop is over: mSessionsMutex is released and shutdownAll returns
ShutdownAllReturn ==
    /\ sdPc = "running"
    /\ sdTodo = {}
    /\ sdCur = "none"
    /\ sdPc' = "returned"
    /\ UNCHANGED <<netVars, mClosed, mSessions, objVars, opVars, expVars, createPc,
                   modifyPc, nCreates, lastResp, sdTodo, sdCur, sdStage,
                   timedOut, mRouterHasRoutingData, chanVars, rtrVars,
                   connectedSeen>>

\* ------------------------------------------------------------ expiration
\* an expirationProc that waits again after raising sessionExpired
expirationProc_Repeats(s) ==
    /\ expThread[s]
    /\ mExpirationSet[s]
    /\ expiredEvents[s] < 2
    /\ expiredEvents' = [expiredEvents EXCEPT ![s] = @ + 1]
    /\ mEventQueue' = Append(mEventQueue, s)
    /\ UNCHANGED <<netVars, mClosed, mSessions, objVars, opVars, mExpirationSet,
                   expThread, coordDeletes,
                   createPc, modifyPc, nCreates, lastResp, sdVars,
                   mRouterHasRoutingData, chanVars, rtrVars, connectedSeen>>

\* expirationProc reaches the expiry with mExpirationSet still true
expirationProc(s) ==
    /\ expThread[s]
    /\ mExpirationSet[s]
    /\ expThread' = [expThread EXCEPT ![s] = FALSE]
    /\ expiredEvents' = [expiredEvents EXCEPT ![s] = @ + 1]
    /\ mEventQueue' = Append(mEventQueue, s)
    /\ UNCHANGED <<netVars, mClosed, mSessions, objVars, opVars, mExpirationSet,
                   coordDeletes,
                   createPc, modifyPc, nCreates, lastResp, sdVars,
                   mRouterHasRoutingData, chanVars, rtrVars, connectedSeen>>

\* sendEventsProc pops a sessionExpired event: notifyTerminateSession
\* sends DELETE /sessions/<id> to the Coordinator
sendEventsProc ==
    /\ mEventQueue # <<>>
    /\ mEventQueue' = Tail(mEventQueue)
    /\ coordDeletes' = [coordDeletes EXCEPT ![Head(mEventQueue)] = @ + 1]
    /\ UNCHANGED <<netVars, mClosed, mSessions, objVars, opVars, mExpirationSet,
                   expThread, expiredEvents, createPc, modifyPc, nCreates,
                   lastResp, sdVars, mRouterHasRoutingData, chanVars, rtrVars,
                   connectedSeen>>

\* ------------------------------------------------------------ router
\* serviceToRouterProc takes the next envelope from the service
serviceToRouterProc ==
    /\ svcToRouter # <<>>
    /\ LET m == Head(svcToRouter) IN
       /\ svcToRouter' = Tail(svcToRouter)
       /\ CASE m.type = "Initialize" ->
                 /\ routingData' = [routingData EXCEPT ![m.sid] = TRUE]
                 /\ routerSeq' = [routerSeq EXCEPT ![m.sid] = m.seq]
                 /\ routerToSvc' = Append(routerToSvc,
                        [type |-> "Acknowledge", sid |-> m.sid])
                 /\ UNCHANGED clientPeer
            [] m.type = "Delete" ->
                 /\ routingData' = [routingData EXCEPT ![m.sid] = FALSE]
                 /\ UNCHANGED <<routerSeq, routerToSvc, clientPeer>>
            [] m.type = "Kick" ->
                 /\ clientPeer' = [clientPeer EXCEPT ![m.sid] = FALSE]
                 /\ UNCHANGED <<routingData, routerSeq, routerToSvc>>
    /\ UNCHANGED <<netVars, mClosed, mSessions, objVars, opVars, expVars, createPc,
                   modifyPc, nCreates, lastResp, sdVars,
                   mRouterHasRoutingData, nConnects, connectedSeen>>

\* the client connect filter: a second client is refused, a first one is
\* tracked (routing data or not) and the service is told "connected"
ClientConnect(s) ==
    /\ nConnects < MaxConnects
    /\ nConnects' = nConnects + 1
    /\ IF clientPeer[s]
       THEN UNCHANGED <<clientPeer, routerToSvc>>
       ELSE /\ clientPeer' = [clientPeer EXCEPT ![s] = TRUE]
            /\ routerToSvc' = Append(routerToSvc,
                   [type |-> "connected", sid |-> s])
    /\ UNCHANGED <<netVars, mClosed, mSessions, objVars, opVars, expVars, createPc,
                   modifyPc, nCreates, lastResp, sdVars,
                   mRouterHasRoutingData, svcToRouter, routingData, routerSeq,
                   connectedSeen>>

\* ------------------------------------------------------------ ArrasController
\* handleMessage on the next envelope from the router
handleMessage ==
    /\ routerToSvc # <<>>
    /\ LET m == Head(routerToSvc) IN
       /\ routerToSvc' = Tail(routerToSvc)
       /\ CASE m.type = "Acknowledge" ->
                 /\ mRouterHasRoutingData' =
                        [mRouterHasRoutingData EXCEPT ![m.sid] = TRUE]
                 /\ UNCHANGED <<mExpirationSet, expThread, svcToRouter,
                                connectedSeen>>
            [] m.type = "connected" ->
                 /\ SessionsMutexFree
                 /\ IF m.sid \in mSessions /\ mState[m.sid] # "Defunct"
                    THEN \* Session::stopExpiration
                         /\ mExpirationSet' =
                                [mExpirationSet EXCEPT ![m.sid] = FALSE]
                         /\ expThread' = [expThread EXCEPT ![m.sid] = FALSE]
                         /\ connectedSeen' = [connectedSeen EXCEPT
                                ![m.sid] = @ \/ expiredEvents[m.sid] = 0]
                         /\ UNCHANGED svcToRouter
                    ELSE \* ArrasController::kickClient
                         /\ svcToRouter' = Append(svcToRouter,
                                [type |-> "Kick", sid |-> m.sid, seq |-> 0])
                         /\ UNCHANGED <<mExpirationSet, expThread,
                                        connectedSeen>>
                 /\ UNCHANGED mRouterHasRoutingData
    /\ UNCHANGED <<netVars, mClosed, mSessions, objVars, opVars, evtVars,
                   createPc, modifyPc, nCreates, lastResp, sdVars, rtrVars>>

Outcomes == {"ok", "stopTimeout", "spawnFail"}

\* a node that is not the entry node of its sessions, up to its shutdown
NextSession ==
    \/ \E s \in SessionIds :
        \/ CreateCheckClosed(s)
        \/ CreateInsert(s)
        \/ CreateInitTimeout(s)
        \/ \E cfg \in Configs : CreateProceed(s, cfg, FALSE)
        \/ CreateErase(s)
        \/ \E kill \in BOOLEAN : DestroySession(s, kill)
        \/ ModifyGetSession(s)
        \/ \E cfg \in Configs : asyncUpdateConfig(s, cfg)
        \/ DELETE_session(s)
        \/ \E outcome \in Outcomes : updateProc(s, outcome)
        \/ \E stopped \in BOOLEAN : deleteProc(s, stopped)
        \/ syncShutdown(s)
        \/ SyncShutdownTimeout(s)
        \/ SyncShutdownRun(s)
        \/ \E stopped \in BOOLEAN : SyncShutdownDeleteProc(s, stopped)
    \/ shutdownAll
    \/ ShutdownAllReturn
    \/ serviceToRouterProc
    \/ handleMessage

SpecSession == Init /\ [][NextSession]_vars

\* the entry node of its sessions: clients connect, deadlines expire
NextEntry ==
    \/ \E s \in SessionIds :
        \/ CreateCheckClosed(s)
        \/ CreateInsert(s)
        \/ CreateInitTimeout(s)
        \/ \E cfg \in Configs : CreateProceed(s, cfg, TRUE)
        \/ CreateErase(s)
        \/ DestroySession(s, TRUE)
        \/ ModifyGetSession(s)
        \/ \E cfg \in Configs : asyncUpdateConfig(s, cfg)
        \/ DELETE_session(s)
        \/ updateProc(s, "ok")
        \/ deleteProc(s, TRUE)
        \/ expirationProc(s)
        \/ ClientConnect(s)
        \/ CoordinatorDelete(s)
    \/ serviceToRouterProc
    \/ handleMessage
    \/ sendEventsProc

SpecEntry == Init /\ [][NextEntry]_vars

\* the entry node of sessions whose client never connects; delete
\* requests come from the Coordinator only
NextExpiry ==
    \/ \E s \in SessionIds :
        \/ CreateCheckClosed(s)
        \/ CreateInsert(s)
        \/ CreateInitTimeout(s)
        \/ \E cfg \in Configs : CreateProceed(s, cfg, TRUE)
        \/ CreateErase(s)
        \/ DestroySession(s, TRUE)
        \/ ModifyGetSession(s)
        \/ \E cfg \in Configs : asyncUpdateConfig(s, cfg)
        \/ updateProc(s, "ok")
        \/ deleteProc(s, TRUE)
        \/ expirationProc(s)
        \/ CoordinatorDelete(s)
    \/ serviceToRouterProc
    \/ handleMessage
    \/ sendEventsProc

SpecExpiry == Init /\ [][NextExpiry]_vars

\* every thread of the node that can take a step eventually takes it, a
\* deadline that stays armed eventually expires, and the Coordinator
\* eventually acts on a DELETE it was sent; requests and client
\* connections come when they come
FairEntry ==
    /\ WF_vars(serviceToRouterProc)
    /\ WF_vars(handleMessage)
    /\ WF_vars(sendEventsProc)
    /\ \A s \in SessionIds :
        /\ WF_vars(\E cfg \in Configs : CreateProceed(s, cfg, TRUE))
        /\ WF_vars(CreateErase(s))
        /\ WF_vars(DestroySession(s, TRUE))
        /\ WF_vars(updateProc(s, "ok"))
        /\ WF_vars(deleteProc(s, TRUE))
        /\ WF_vars(expirationProc(s))
        /\ WF_vars(CoordinatorDelete(s))

FairSpecExpiry == SpecExpiry /\ FairEntry

\* ------------------------------------------------------------ node to node
\* the other node of the pair
otherNode(n) == CHOOSE m \in NodeIds : m # n

\* the node of the pair whose id is the lesser: its sendThreadWithConnect
\* waits for the other node's connection
LesserNode == CHOOSE n \in NodeIds : \A m \in NodeIds : n <= m

Endpoint(kind, peer, pc, flagged) ==
    [kind |-> kind, mPeer |-> peer, pc |-> pc, flagged |-> flagged]

Endpoints ==
    [kind : {"out", "in"}, mPeer : {"none", "own", "remote"},
     pc : {"connect", "wait", "send"}, flagged : BOOLEAN]

\* PeerManager::findNodePeer: the records of node n's table under key id
findNodePeer(n, id) == {p \in mNodes[n] : p[1] = id}

\* PeerManager::trackNode: mNodes[aId] = peerPtr
trackNode(n, id, e) ==
    mNodes' = [mNodes EXCEPT ![n] = {p \in @ : p[1] # id} \cup {<<id, e>>}]

\* a field of the endpoint tracked under key id changes
updateEndpoint(n, id, e, f) ==
    mNodes' = [mNodes EXCEPT ![n] = (@ \ {<<id, e>>}) \cup {<<id, f>>}]

\* routeMessage has an envelope for the other node and finds no endpoint
\* for it, again under mNodeConnectionMutex: createNodeRemoteEndpoint
routeMessage(n) ==
    /\ nEndpoints < MaxEndpoints
    /\ findNodePeer(n, otherNode(n)) = {}
    /\ trackNode(n, otherNode(n), Endpoint("out", "none", "connect", FALSE))
    /\ nEndpoints' = nEndpoints + 1
    /\ UNCHANGED <<sessVars, restVars, queueVars, dials, connectLog>>

\* a sendThreadWithConnect that keeps its own connection whichever node
\* has the greater id
sendThreadWithConnect_KeepOwn(n, e, ok) ==
    /\ <<otherNode(n), e>> \in mNodes[n]
    /\ e.pc = "connect"
    /\ dials' = [dials EXCEPT ![otherNode(n)] = IF ok THEN @ + 1 ELSE @]
    /\ updateEndpoint(n, otherNode(n), e,
           Endpoint(e.kind, "own", "send", e.flagged \/ ~ok))
    /\ UNCHANGED <<sessVars, restVars, queueVars, nEndpoints, connectLog>>

\* sendThreadWithConnect: connect and register with the other node (a
\* failure flags the endpoint for destruction); the greater node keeps
\* its connection, the lesser one waits for mPeer to be set
sendThreadWithConnect(n, e, ok) ==
    /\ <<otherNode(n), e>> \in mNodes[n]
    /\ e.pc = "connect"
    /\ dials' = [dials EXCEPT ![otherNode(n)] = IF ok THEN @ + 1 ELSE @]
    /\ IF otherNode(n) < n
       THEN updateEndpoint(n, otherNode(n), e,
                Endpoint(e.kind, "own", "send", e.flagged \/ ~ok))
       ELSE updateEndpoint(n, otherNode(n), e,
                Endpoint(e.kind, e.mPeer,
                         IF e.mPeer = "none" THEN "wait" ELSE "send",
                         e.flagged \/ ~ok))
    /\ UNCHANGED <<sessVars, restVars, queueVars, nEndpoints, connectLog>>

\* RemoteEndpoint::setPeer, which also wakes a waiting sendThreadWithConnect
setPeer(n, id, e) ==
    updateEndpoint(n, id, e,
        Endpoint(e.kind, "remote",
                 IF e.pc = "wait" THEN "send" ELSE e.pc, e.flagged))

\* the line the node connect filter logs for a connection from the other
\* node
nodeConnectFilter_log(n, known) ==
    IF findNodePeer(n, otherNode(n)) = {}
    THEN IF otherNode(n) < n
         THEN IF known THEN "reciprocal" ELSE "BadNodeConnection"
         ELSE "accepted"
    ELSE IF otherNode(n) < n THEN "inProgress" ELSE "setPeer"

\* a node connect filter that takes any connection it has no endpoint for
nodeConnectFilter_AcceptAny(n, known) ==
    /\ dials[n] > 0
    /\ dials' = [dials EXCEPT ![n] = @ - 1]
    /\ connectLog' = [connectLog EXCEPT ![n] = nodeConnectFilter_log(n, known)]
    /\ IF findNodePeer(n, otherNode(n)) = {}
       THEN /\ nEndpoints < MaxEndpoints
            /\ trackNode(n, otherNode(n),
                   Endpoint("in", "remote", "send", FALSE))
            /\ nEndpoints' = nEndpoints + 1
       ELSE /\ IF otherNode(n) < n
               THEN UNCHANGED mNodes
               ELSE \E p \in findNodePeer(n, otherNode(n)) :
                       setPeer(n, p[1], p[2])
            /\ UNCHANGED nEndpoints
    /\ UNCHANGED <<sessVars, restVars, queueVars>>

\* the node connect filter on a connection from the other node, under
\* mNodeConnectionMutex; known is what findNodeInfo answers
nodeConnectFilter(n, known) ==
    /\ dials[n] > 0
    /\ dials' = [dials EXCEPT ![n] = @ - 1]
    /\ connectLog' = [connectLog EXCEPT ![n] = nodeConnectFilter_log(n, known)]
    /\ IF findNodePeer(n, otherNode(n)) = {}
       THEN IF otherNode(n) < n
            THEN IF known
                 THEN /\ nEndpoints < MaxEndpoints
                      /\ trackNode(n, otherNode(n),
                             Endpoint("out", "none", "connect", FALSE))
                      /\ nEndpoints' = nEndpoints + 1
                 ELSE UNCHANGED <<mNodes, nEndpoints>>
            ELSE /\ nEndpoints < MaxEndpoints
                 /\ trackNode(n, otherNode(n),
                        Endpoint("in", "remote", "send", FALSE))
                 /\ nEndpoints' = nEndpoints + 1
       ELSE /\ IF otherNode(n) < n
               THEN UNCHANGED mNodes
               ELSE \E p \in findNodePeer(n, otherNode(n)) :
                       setPeer(n, p[1], p[2])
            /\ UNCHANGED nEndpoints
    /\ UNCHANGED <<sessVars, restVars, queueVars>>

\* a send or receive on the endpoint's connection fails: disconnect flags
\* the endpoint for destruction
disconnect(n, e) ==
    /\ <<otherNode(n), e>> \in mNodes[n]
    /\ e.mPeer # "none"
    /\ e.pc # "connect"
    /\ ~e.flagged
    /\ updateEndpoint(n, otherNode(n), e,
           Endpoint(e.kind, e.mPeer, e.pc, TRUE))
    /\ UNCHANGED <<sessVars, restVars, queueVars, dials, nEndpoints,
                   connectLog>>

\* destroyEndpoints untracks an endpoint that was flagged for destruction
destroyEndpoints(n, e) ==
    /\ <<otherNode(n), e>> \in mNodes[n]
    /\ e.flagged
    /\ e.pc # "connect"
    /\ mNodes' = [mNodes EXCEPT ![n] = @ \ {<<otherNode(n), e>>}]
    /\ UNCHANGED <<sessVars, restVars, queueVars, dials, nEndpoints,
                   connectLog>>

NextNodes ==
    \E n \in NodeIds :
        \/ routeMessage(n)
        \/ \E e \in Endpoints, ok \in BOOLEAN : sendThreadWithConnect(n, e, ok)
        \/ \E known \in BOOLEAN : nodeConnectFilter(n, known)
        \/ \E e \in Endpoints : disconnect(n, e)
        \/ \E e \in Endpoints : destroyEndpoints(n, e)

SpecNodes == Init /\ [][NextNodes]_vars

\* each router's accept thread and each endpoint's send thread keep running;
\* whether a connect succeeds and what findNodeInfo answers is not theirs to
\* choose, and nothing obliges a node to route a further envelope
FairNodes ==
    \A n \in NodeIds :
        /\ WF_vars(\E e \in Endpoints, ok \in BOOLEAN :
                      sendThreadWithConnect(n, e, ok))
        /\ WF_vars(\E known \in BOOLEAN : nodeConnectFilter(n, known))
        /\ WF_vars(\E e \in Endpoints : destroyEndpoints(n, e))

FairSpecNodes == SpecNodes /\ FairNodes

\* ------------------------------------------------------------ send queue
\* the threads that queue envelopes to the endpoint
Senders == {"a", "b"}

\* RemoteEndpoint::queueEnvelope by a thread routing an envelope of sender
\* src: push, or drop when the queue has been shut down
queueEnvelope(src) ==
    /\ nQueued < MaxEnvelopes
    /\ nQueued' = nQueued + 1
    /\ IF mQueueShutdown
       THEN UNCHANGED <<mMessageQueue, enqueued>>
       ELSE /\ mMessageQueue' =
                   Append(mMessageQueue, [from |-> src, n |-> nQueued + 1])
            /\ enqueued' = Append(enqueued, [from |-> src, n |-> nQueued + 1])
    /\ UNCHANGED <<sessVars, restVars, nodeVars, popped, sendPc, mShutdown,
                   mQueueShutdown, observed>>

\* a sendThread that reads the head of the queue and leaves it queued
sendThreadPop_KeepHead ==
    /\ sendPc = "pop"
    /\ mMessageQueue # <<>>
    /\ popped' = <<Head(mMessageQueue)>>
    /\ sendPc' = "send"
    /\ UNCHANGED <<sessVars, restVars, nodeVars, mMessageQueue, mShutdown,
                   mQueueShutdown, enqueued, observed, nQueued>>

\* sendThread: mMessageQueue->pop (ShutdownException ends the thread), then
\* the test of mShutdown
sendThreadPop ==
    /\ sendPc = "pop"
    /\ IF mQueueShutdown
       THEN /\ sendPc' = "exit"
            /\ UNCHANGED <<mMessageQueue, popped>>
       ELSE /\ mMessageQueue # <<>>
            /\ mMessageQueue' = Tail(mMessageQueue)
            /\ IF mShutdown
               THEN /\ sendPc' = "exit"
                    /\ UNCHANGED popped
               ELSE /\ sendPc' = "send"
                    /\ popped' = <<Head(mMessageQueue)>>
    /\ UNCHANGED <<sessVars, restVars, nodeVars, mShutdown, mQueueShutdown, enqueued,
                   observed, nQueued>>

\* sendThread: sendEnvelope writes the envelope to the peer, or throws and
\* the thread disconnects and exits
sendThreadSend(ok) ==
    /\ sendPc = "send"
    /\ IF ok
       THEN /\ observed' = observed \o popped
            /\ sendPc' = "pop"
       ELSE /\ sendPc' = "exit"
            /\ UNCHANGED observed
    /\ popped' = <<>>
    /\ UNCHANGED <<sessVars, restVars, nodeVars, mMessageQueue, mShutdown,
                   mQueueShutdown, enqueued, nQueued>>

\* ~RemoteEndpoint: mShutdown = true
destroyEndpoint ==
    /\ ~mShutdown
    /\ mShutdown' = TRUE
    /\ UNCHANGED <<sessVars, restVars, nodeVars, mMessageQueue, popped, sendPc,
                   mQueueShutdown, enqueued, observed, nQueued>>

\* ~RemoteEndpoint: mMessageQueue->shutdown()
destroyEndpointQueue ==
    /\ mShutdown
    /\ ~mQueueShutdown
    /\ mQueueShutdown' = TRUE
    /\ UNCHANGED <<sessVars, restVars, nodeVars, mMessageQueue, popped, sendPc,
                   mShutdown, enqueued, observed, nQueued>>

NextQueue ==
    \/ \E src \in Senders : queueEnvelope(src)
    \/ sendThreadPop
    \/ \E ok \in BOOLEAN : sendThreadSend(ok)
    \/ destroyEndpoint
    \/ destroyEndpointQueue

SpecQueue == Init /\ [][NextQueue]_vars

\* ------------------------------------------------------------ peer registry
\* the endpoints some shared_ptr still refers to: a table entry or a
\* routing thread's copy; an endpoint is destroyed when the last one goes
referenced(cl, ip, hd) ==
    {e \in Addrs : \/ \E s \in SessionIds : cl[s] = e
                   \/ \E c \in CompIds : ip[c] = e
                   \/ e \in hd}

\* the client connect filter: refuse when findClientPeer finds an endpoint,
\* else construct the ClientRemoteEndpoint at address a and trackClient
clientConnectFilter(s, a) ==
    /\ nPeers < MaxPeers
    /\ nPeers' = nPeers + 1
    /\ IF mClients[s] # NoPeer
       THEN UNCHANGED <<mClients, live, ident>>
       ELSE /\ a \notin live
            /\ mClients' = [mClients EXCEPT ![s] = a]
            /\ live' = live \cup {a}
            /\ ident' = [ident EXCEPT ![a] = <<"client", s>>]
    /\ UNCHANGED <<notPeerVars, mIpc, holders, mFlaggedForDestruction,
                   mEndpointsToDelete>>

\* the IPC connect filter: construct the endpoint at address a and trackIpc,
\* which replaces an entry already under the computation id
ipcConnectFilter(c, a) ==
    /\ nPeers < MaxPeers
    /\ nPeers' = nPeers + 1
    /\ a \notin live
    /\ mIpc' = [mIpc EXCEPT ![c] = a]
    /\ ident' = [ident EXCEPT ![a] = <<"computation", c>>]
    /\ live' = (live \cup {a}) \cap referenced(mClients, mIpc', holders)
    /\ mFlaggedForDestruction' = mFlaggedForDestruction \cap live'
    /\ UNCHANGED <<notPeerVars, mClients, holders, mEndpointsToDelete>>

\* PeerManager::findClientPeer by a routing thread, which keeps the Ptr
findClientPeer(s) ==
    /\ mClients[s] # NoPeer
    /\ holders' = holders \cup {mClients[s]}
    /\ UNCHANGED <<notPeerVars, mClients, mIpc, live, ident,
                   mFlaggedForDestruction, mEndpointsToDelete, nPeers>>

\* PeerManager::findIpcPeer by a routing thread, which keeps the Ptr
findIpcPeer(c) ==
    /\ mIpc[c] # NoPeer
    /\ holders' = holders \cup {mIpc[c]}
    /\ UNCHANGED <<notPeerVars, mClients, mIpc, live, ident,
                   mFlaggedForDestruction, mEndpointsToDelete, nPeers>>

\* the routing thread is done with the endpoint: its Ptr goes out of scope
releasePeer(e) ==
    /\ e \in holders
    /\ holders' = holders \ {e}
    /\ live' = live \cap referenced(mClients, mIpc, holders')
    /\ mFlaggedForDestruction' = mFlaggedForDestruction \cap live'
    /\ UNCHANGED <<notPeerVars, mClients, mIpc, ident, mEndpointsToDelete,
                   nPeers>>

\* RemoteEndpoint::flagForDestruction, from disconnect or kickClient
flagForDestruction(e) ==
    /\ e \in live
    /\ e \notin mFlaggedForDestruction
    /\ mFlaggedForDestruction' = mFlaggedForDestruction \cup {e}
    /\ mEndpointsToDelete' = Append(mEndpointsToDelete, e)
    /\ UNCHANGED <<notPeerVars, mClients, mIpc, live, ident, holders, nPeers>>

\* PeerManager::eraseIfFound: erase the entry that holds the pointer
eraseIfFound(table, e) ==
    IF \E k \in DOMAIN table : table[k] = e
    THEN [table EXCEPT ![CHOOSE k \in DOMAIN table : table[k] = e] = NoPeer]
    ELSE table

\* a destroyEndpoints that deletes the endpoint and leaves its table entry
destroyPeer_NoErase ==
    /\ mEndpointsToDelete # <<>>
    /\ mEndpointsToDelete' = Tail(mEndpointsToDelete)
    /\ live' = live \ {Head(mEndpointsToDelete)}
    /\ mFlaggedForDestruction' = mFlaggedForDestruction \cap live'
    /\ UNCHANGED <<notPeerVars, mClients, mIpc, ident, holders, nPeers>>

\* ThreadedNodeRouter::destroyEndpoints, one turn of its loop: pop a raw
\* pointer and PeerManager::destroyPeer it, mClients first, then mIpc
destroyPeer ==
    /\ mEndpointsToDelete # <<>>
    /\ mEndpointsToDelete' = Tail(mEndpointsToDelete)
    /\ LET ep == Head(mEndpointsToDelete)
       IN  IF \E s \in SessionIds : mClients[s] = ep
           THEN /\ mClients' = eraseIfFound(mClients, ep)
                /\ UNCHANGED mIpc
           ELSE /\ mIpc' = eraseIfFound(mIpc, ep)
                /\ UNCHANGED mClients
    /\ live' = live \cap referenced(mClients', mIpc', holders)
    /\ mFlaggedForDestruction' = mFlaggedForDestruction \cap live'
    /\ UNCHANGED <<notPeerVars, ident, holders, nPeers>>

NextPeers ==
    \/ \E s \in SessionIds, a \in Addrs : clientConnectFilter(s, a)
    \/ \E c \in CompIds, a \in Addrs : ipcConnectFilter(c, a)
    \/ \E s \in SessionIds : findClientPeer(s)
    \/ \E c \in CompIds : findIpcPeer(c)
    \/ \E e \in Addrs : releasePeer(e)
    \/ \E e \in Addrs : flagForDestruction(e)
    \/ destroyPeer

SpecPeers == Init /\ [][NextPeers]_vars

\* ------------------------------------------------------------ routeMessage
\* parseDestinationAddressLists: aToClient
aToClient(to) == \E i \in DOMAIN to : to[i].node = NullId

\* parseDestinationAddressLists: aIpcLists[c], empty when c is no key
aIpcLists(to, c) ==
    SelectSeq(to, LAMBDA a : a.node = LocalNode /\ a.computation = c)

\* a parseDestinationAddressLists that files every address under every
\* remote node named in the list
aNodeLists_Whole(to, n) ==
    IF \E i \in DOMAIN to : to[i].node = n THEN to ELSE <<>>

\* parseDestinationAddressLists: aNodeLists[n], empty when n is no key
aNodeLists(to, n) ==
    SelectSeq(to, LAMBDA a : a.node = n /\ a.node # NullId
                             /\ a.node # LocalNode)

\* the address routeMessage adds for the entry node: only session is set
entryNodeAddr == [node |-> NullId, computation |-> NullId]

\* nodeLists as the loop over remote destinations sees it
nodeLists(to, entry, n) ==
    IF aToClient(to) /\ entry # LocalNode /\ n = entry
    THEN Append(aNodeLists(to, n), entryNodeAddr)
    ELSE aNodeLists(to, n)

\* routeMessage on an envelope with destinations to, on a node whose
\* routing data names entry as entry node, with the peers that the
\* registry holds at the time
routeMessage_envelope(to, entry, client, ipc) ==
    /\ rtPc = "idle"
    /\ rtPc' = "routed"
    /\ rtTo' = to
    /\ rtEntry' = entry
    /\ rtClient' = client
    /\ rtIpc' = ipc
    /\ outClient' = IF aToClient(to) /\ entry = LocalNode /\ client
                    THEN 1 ELSE 0
    /\ outStash' = IF aToClient(to) /\ entry = LocalNode /\ ~client
                   THEN 1 ELSE 0
    /\ outIpc' = [c \in CompIds |->
                    IF aIpcLists(to, c) # <<>> /\ c \in ipc THEN 1 ELSE 0]
    /\ outNode' = [n \in RouteNodeIds |->
                    IF nodeLists(to, entry, n) # <<>>
                    THEN <<nodeLists(to, entry, n)>> ELSE <<>>]
    /\ UNCHANGED notRouteVars

SeqsUpTo(S, n) == UNION {[1..k -> S] : k \in 0..n}

NextRoute ==
    \E to \in SeqsUpTo(Addresses, MaxTo), entry \in RouteNodeIds,
       client \in BOOLEAN, ipc \in SUBSET CompIds :
        routeMessage_envelope(to, entry, client, ipc)

SpecRoute == Init /\ [][NextRoute]_vars

\* ------------------------------------------------------------ send-events
\* NodeService::handleEvent: push the event on mEventQueue
handleEvent(type) ==
    /\ nEvents < MaxEvents
    /\ ~evShutdown
    /\ nEvents' = nEvents + 1
    /\ evQueue' = Append(evQueue, [id |-> nEvents + 1, eventType |-> type])
    /\ UNCHANGED <<notEventVars, evShutdown, mRunThreads, evPc, evCur, requests,
                   issued>>

\* the place in the queue that ThreadsafeQueue::pop takes from: the front;
\* and a pop that takes from the back
popIndex_Back(q) == Len(q)
popIndex(q) == 1

\* sendEventsProc: the test of mRunThreads, then mEventQueue.pop, which
\* throws ShutdownException once the queue has been shut down
sendEventsPop ==
    /\ evPc = "pop"
    /\ IF ~mRunThreads
       THEN /\ evPc' = "exit"
            /\ UNCHANGED <<evQueue, evCur>>
       ELSE IF evShutdown
       THEN UNCHANGED <<evPc, evQueue, evCur>>
       ELSE /\ evQueue # <<>>
            /\ evCur' = <<evQueue[popIndex(evQueue)]>>
            /\ evQueue' = [k \in 1..(Len(evQueue) - 1) |->
                              IF k < popIndex(evQueue) THEN evQueue[k]
                              ELSE evQueue[k + 1]]
            /\ evPc' = "send"
    /\ UNCHANGED <<notEventVars, evShutdown, mRunThreads, requests, nEvents,
                   issued>>

\* sendEventsProc: sendEvent submits the request that the event's type
\* maps to; "shutdownWithError" is logged and stops the node instead
sendEvent ==
    /\ evPc = "send"
    /\ requests' = IF evCur[1].eventType = "shutdownWithError"
                   THEN requests
                   ELSE [requests EXCEPT ![evCur[1].id] = @ + 1]
    /\ issued' = IF evCur[1].eventType = "shutdownWithError"
                 THEN issued
                 ELSE Append(issued, evCur[1].id)
    /\ evCur' = <<>>
    /\ evPc' = "pop"
    /\ UNCHANGED <<notEventVars, evQueue, evShutdown, mRunThreads, nEvents>>

\* ~NodeService: mRunThreads = false
NodeServiceStop ==
    /\ mRunThreads
    /\ mRunThreads' = FALSE
    /\ UNCHANGED <<notEventVars, evQueue, evShutdown, evPc, evCur, requests,
                   nEvents, issued>>

\* ~NodeService: mEventQueue.shutdown(); the join follows
NodeServiceShutdownQueue ==
    /\ ~mRunThreads
    /\ ~evShutdown
    /\ evShutdown' = TRUE
    /\ UNCHANGED <<notEventVars, evQueue, mRunThreads, evPc, evCur, requests,
                   nEvents, issued>>

NextEvents ==
    \/ \E type \in EventTypes : handleEvent(type)
    \/ sendEventsPop
    \/ sendEvent
    \/ NodeServiceStop
    \/ NodeServiceShutdownQueue

SpecEvents == Init /\ [][NextEvents]_vars

\* ------------------------------------------------------------ ban list
\* a BanList::hasExpired that compares with >=
hasExpired_AtWindow(timeStamp) == (now - timeStamp) >= mSecToUnBan

\* a BanList::hasExpired for which no entry ever expires
hasExpired_Never(timeStamp) == now < timeStamp

\* BanList::hasExpired
hasExpired(timeStamp) == (now - timeStamp) > mSecToUnBan

\* BanList::isBanned: mBanListMap after the call
isBannedMap(a) ==
    LET e == mBanListMap[a] IN
    IF e = NoEntry THEN mBanListMap
    ELSE IF hasExpired(e.timeStamp)
    THEN [mBanListMap EXCEPT ![a] = NoEntry]
    ELSE IF e.count = mCountToBan
    THEN [mBanListMap EXCEPT ![a] = [count |-> e.count + 1, timeStamp |-> now]]
    ELSE mBanListMap

\* a BanList::isBanned that refuses only at the threshold count
isBanned_OnceOnly(a) ==
    LET e == mBanListMap[a] IN
    /\ e # NoEntry
    /\ ~hasExpired(e.timeStamp)
    /\ e.count = mCountToBan

\* BanList::isBanned: the value returned
isBanned(a) ==
    LET e == mBanListMap[a] IN
    /\ e # NoEntry
    /\ ~hasExpired(e.timeStamp)
    /\ e.count >= mCountToBan

\* BanList::track
track(map, a) ==
    IF map[a] = NoEntry
    THEN [map EXCEPT ![a] = [count |-> 1, timeStamp |-> now]]
    ELSE [map EXCEPT ![a] = [count |-> @.count + 1, timeStamp |-> now]]

\* UrlRouter::handle of mGetRouter, which has the ban list: mapped says
\* whether a route matches the url
handleGet(a, mapped) ==
    /\ lastReq' = [source |-> a, method |-> "GET", mapped |-> mapped]
    /\ IF isBanned(a)
       THEN /\ lastCode' = HTTP_TOO_MANY_REQUESTS
            /\ mBanListMap' = isBannedMap(a)
            /\ UNCHANGED tracked
       ELSE IF mapped
       THEN /\ lastCode' = HTTP_OK
            /\ mBanListMap' = isBannedMap(a)
            /\ tracked' = IF isBannedMap(a)[a] = NoEntry
                          THEN [tracked EXCEPT ![a] = <<>>] ELSE tracked
       ELSE /\ lastCode' = HTTP_NOT_FOUND
            /\ mBanListMap' = track(isBannedMap(a), a)
            /\ tracked' = [tracked EXCEPT ![a] =
                              IF isBannedMap(a)[a] = NoEntry
                              THEN <<now>> ELSE Append(@, now)]
    /\ UNCHANGED <<notBanVars, now>>

\* UrlRouter::handle of mPutRouter, mPostRouter and mDeleteRouter, which
\* have no ban list
handleOther(a, method, mapped) ==
    /\ method # "GET"
    /\ lastReq' = [source |-> a, method |-> method, mapped |-> mapped]
    /\ lastCode' = IF mapped THEN HTTP_OK
                   ELSE IF method = "DELETE" THEN HTTP_NOT_FOUND
                   ELSE HTTP_BAD_REQUEST
    /\ UNCHANGED <<notBanVars, now, mBanListMap, tracked>>

\* BanList::cleanup, from GET node/1/status
cleanup ==
    /\ \E a \in Sources :
          mBanListMap[a] # NoEntry /\ hasExpired(mBanListMap[a].timeStamp)
    /\ mBanListMap' = [a \in Sources |->
                         IF mBanListMap[a] # NoEntry
                            /\ hasExpired(mBanListMap[a].timeStamp)
                         THEN NoEntry ELSE mBanListMap[a]]
    /\ tracked' = [a \in Sources |->
                      IF mBanListMap'[a] = NoEntry THEN <<>> ELSE tracked[a]]
    /\ UNCHANGED <<notBanVars, now, lastReq, lastCode>>

\* time passes
Tick(d) ==
    /\ now + d <= MaxTime
    /\ now' = now + d
    /\ UNCHANGED <<notBanVars, mBanListMap, tracked, lastReq, lastCode>>

NextBan ==
    \/ \E a \in Sources, mapped \in BOOLEAN : handleGet(a, mapped)
    \/ \E a \in Sources, method \in Methods, mapped \in BOOLEAN :
          handleOther(a, method, mapped)
    \/ cleanup
    \/ \E d \in Delays : Tick(d)

SpecBan == Init /\ [][NextBan]_vars

\* ------------------------------------------------------------ computations
\* Session::getConfigDelta, its two results
getConfigDelta_new(cfg) == cfg \ sesComputations
getConfigDelta_defunctAll(cfg) == sesComputations
getConfigDelta_defunct(cfg) == sesComputations \ cfg

\* the first k computations of a set in the order std::map iterates them
firstOf(S, k) == {c \in S : Cardinality({d \in S : rank[d] < rank[c]}) < k}

\* the control messages a computation has been sent once Computation::signal
\* has handled a "run": a process that is not in state Spawned is sent
\* nothing, the first message to a spawned one is "go", the rest "update"
Computation_signal_AlwaysGo(c) ==
    IF processState[c] = "Spawned" THEN Append(control[c], "go") ELSE control[c]

Computation_signal(c) ==
    IF processState[c] = "Spawned"
    THEN Append(control[c], IF mSentGo[c] THEN "update" ELSE "go")
    ELSE control[c]

\* Session::checkIsFree: 0, or the http code of the SessionError
checkIsFree ==
    IF sesState = "Busy" THEN HTTP_RESOURCE_CONFLICT
    ELSE IF sesState = "Defunct" THEN HTTP_RESOURCE_CONFLICT
    ELSE 0

\* Session::signal: "run" goes to every computation of mComputations,
\* "engineReady" goes to the client
Session_signal(status) ==
    /\ nSignals < MaxSignals
    /\ IF checkIsFree # 0
       THEN /\ sesResp' = Resp("signal", checkIsFree)
            /\ UNCHANGED <<control, mSentGo, nSignals>>
       ELSE /\ sesResp' = Resp("signal", HTTP_OK)
            /\ IF status = "run"
               THEN /\ control' = [c \in Computations |->
                                     IF c \in sesComputations
                                     THEN Computation_signal(c) ELSE control[c]]
                    /\ mSentGo' = [c \in Computations |->
                                     mSentGo[c] \/ (c \in sesComputations
                                                    /\ processState[c] = "Spawned")]
                    /\ nSignals' = nSignals + 1
               ELSE UNCHANGED <<control, mSentGo, nSignals>>
    /\ UNCHANGED <<notCompVars, sesState, sesComputations, sesThread, sesConfig,
                   sesOp, processState, terminateCalls, spawnCalls, opFailed,
                   nOps>>

\* Session::asyncUpdateConfig as createSession (the session has had no
\* operation yet) or modifySession calls it
Session_asyncUpdateConfigUpTo(cfg, maxOps) ==
    /\ nOps < maxOps
    /\ IF checkIsFree # 0
       THEN /\ sesResp' = Resp(IF nOps = 0 THEN "create" ELSE "modify", checkIsFree)
            /\ UNCHANGED <<sesState, sesThread, sesConfig, sesOp, nOps>>
       ELSE /\ sesState' = "Busy"
            /\ sesThread' = "updateProc"
            /\ sesConfig' = cfg
            /\ sesOp' = IF nOps = 0 THEN "create" ELSE "modify"
            /\ nOps' = nOps + 1
            /\ sesResp' = Resp(IF nOps = 0 THEN "create" ELSE "modify", HTTP_OK)
    /\ UNCHANGED <<notCompVars, sesComputations, processState, mSentGo, control,
                   terminateCalls, spawnCalls, opFailed, nSignals>>

Session_asyncUpdateConfig(cfg) == Session_asyncUpdateConfigUpTo(cfg, MaxOps)

\* mState as updateProc leaves it
updateProc_mState_StayBusy(st) == st
updateProc_mState(st) == IF st = "Busy" THEN "Free" ELSE st

\* Session::updateProc, the whole thread: applyNewConfig tells the defunct
\* computations to stop and waits for them (those of late are still running
\* when the 30 s are over, and applyNewConfig throws); then it starts the
\* new ones in map order, the first k of them with success (with k short of
\* all of them, startNewComputation throws at the next one); an exception
\* becomes a sessionOperationFailed event; Busy goes back to Free
Session_updateProc(late, k) ==
    LET new == getConfigDelta_new(sesConfig)
        defunct == getConfigDelta_defunct(sesConfig)
        started == IF late = {} THEN firstOf(new, k) ELSE {}
    IN
    /\ sesThread = "updateProc"
    /\ late \subseteq {c \in defunct : processState[c] # "Terminated"}
    /\ k \in 0..Cardinality(new)
    /\ late # {} => k = 0
    /\ terminateCalls' = [c \in Computations |->
                            terminateCalls[c] + IF c \in defunct THEN 1 ELSE 0]
    /\ spawnCalls' = [c \in Computations |->
                            spawnCalls[c] + IF c \in started THEN 1 ELSE 0]
    /\ processState' = [c \in Computations |->
                            IF c \in late THEN "Terminating"
                            ELSE IF c \in defunct THEN "Terminated"
                            ELSE IF c \in started THEN "Spawned"
                            ELSE processState[c]]
    /\ sesComputations' = sesComputations \cup started
    /\ opFailed' = opFailed + IF late # {} \/ k < Cardinality(new) THEN 1 ELSE 0
    /\ sesState' = updateProc_mState(sesState)
    /\ sesThread' = "none"
    /\ UNCHANGED <<notCompVars, sesConfig, sesOp, mSentGo, control, nSignals,
                   nOps, sesResp>>

\* Session::asyncDelete
Session_asyncDelete ==
    /\ IF checkIsFree # 0
       THEN /\ sesResp' = Resp("delete", checkIsFree)
            /\ UNCHANGED <<sesState, sesThread, sesOp>>
       ELSE /\ sesState' = "Busy"
            /\ sesThread' = "deleteProc"
            /\ sesOp' = "delete"
            /\ sesResp' = Resp("delete", HTTP_OK)
    /\ UNCHANGED <<notCompVars, sesComputations, sesConfig, processState,
                   mSentGo, control, terminateCalls, spawnCalls, opFailed,
                   nSignals, nOps>>

\* Session::deleteProc, the whole thread: every computation is told to stop
\* and waited for (those of late outlive the wait); mState becomes Defunct
Session_deleteProc(late) ==
    /\ sesThread = "deleteProc"
    /\ late \subseteq {c \in sesComputations : processState[c] # "Terminated"}
    /\ terminateCalls' = [c \in Computations |->
                            terminateCalls[c]
                              + IF c \in sesComputations THEN 1 ELSE 0]
    /\ processState' = [c \in Computations |->
                            IF c \in late THEN "Terminating"
                            ELSE IF c \in sesComputations THEN "Terminated"
                            ELSE processState[c]]
    /\ sesState' = "Defunct"
    /\ sesThread' = "none"
    /\ UNCHANGED <<notCompVars, sesComputations, sesConfig, sesOp, mSentGo,
                   control, spawnCalls, opFailed, nSignals, nOps, sesResp>>

\* the process of a computation exits, of itself or because it was told to
processExit(c) ==
    /\ processState[c] \in {"Spawned", "Terminating"}
    /\ processState' = [processState EXCEPT ![c] = "Terminated"]
    /\ UNCHANGED <<notCompVars, sesState, sesComputations, sesThread, sesConfig,
                   sesOp, mSentGo, control, terminateCalls, spawnCalls, opFailed,
                   nSignals, nOps, sesResp>>

NextComps ==
    \/ \E status \in SignalStatus : Session_signal(status)
    \/ \E cfg \in CompConfigs : Session_asyncUpdateConfig(cfg)
    \/ \E late \in SUBSET Computations, k \in 0..Cardinality(Computations) :
          Session_updateProc(late, k)
    \/ Session_asyncDelete
    \/ \E late \in SUBSET Computations : Session_deleteProc(late)
    \/ \E c \in Computations : processExit(c)

SpecComps == Init /\ [][NextComps]_vars

\* ------------------------------------------------------------ tags
\* the member names of a tags object
keys(tags) == {n \in TagNames : tags[n] # Absent}

\* Json::Value::isNull of tags[n], and isBool of a value
isNull(tags, n) == tags[n] = Absent
isBool(v) == v = "true"

\* validateTags
validateTags(tags) ==
    /\ ~(isNull(tags, "exclusive_production") /\ ~isNull(tags, "exclusive_team"))
    /\ ~("over_subscribe" \in keys(tags) /\ ~isBool(tags["over_subscribe"]))
    /\ ~(isNull(tags, "exclusive_user") /\ isBool(tags["over_subscribe"]))

\* current[it.memberName()] = *it for every member of tags
mergeTags(current, tags) ==
    [n \in TagNames |-> IF tags[n] # Absent THEN tags[n] ELSE current[n]]

\* current.removeMember(name) for every name of the list that is a member
removeTags_None(current, names) == current

removeTags(current, names) ==
    [n \in TagNames |-> IF n \in names THEN Absent ELSE current[n]]

\* an updateTags that does not test mNodeInfoIsUpdating
updateTags_NoBusyTest(tags) ==
    /\ nTagOps < MaxTagOps
    /\ IF ~validateTags(mergeTags(mNodeInfoTags, tags))
       THEN /\ tagCode' = HTTP_BAD_REQUEST
            /\ tagPair' = NoPair
            /\ UNCHANGED <<mNodeInfoIsUpdating, mNodeInfoUpdateThread, tagArg,
                           nTagOps>>
       ELSE /\ mNodeInfoIsUpdating' = TRUE
            /\ mNodeInfoUpdateThread' = "updateTagsProc"
            /\ tagArg' = tags
            /\ tagCode' = HTTP_OK
            /\ tagPair' = [pc |-> "updating", prior |-> mNodeInfoTags,
                           keys |-> keys(tags)]
            /\ nTagOps' = nTagOps + 1
    /\ UNCHANGED <<notTagVars, mNodeInfoTags>>

\* ArrasNode::updateTags: refused while an update runs or when the merged
\* tags are not valid, else the update thread is started
updateTags(tags) ==
    /\ nTagOps < MaxTagOps
    /\ IF mNodeInfoIsUpdating
       THEN /\ tagCode' = HTTP_RESOURCE_CONFLICT
            /\ UNCHANGED <<mNodeInfoIsUpdating, mNodeInfoUpdateThread, tagArg,
                           tagPair, nTagOps>>
       ELSE IF ~validateTags(mergeTags(mNodeInfoTags, tags))
       THEN /\ tagCode' = HTTP_BAD_REQUEST
            /\ tagPair' = NoPair
            /\ UNCHANGED <<mNodeInfoIsUpdating, mNodeInfoUpdateThread, tagArg,
                           nTagOps>>
       ELSE /\ mNodeInfoIsUpdating' = TRUE
            /\ mNodeInfoUpdateThread' = "updateTagsProc"
            /\ tagArg' = tags
            /\ tagCode' = HTTP_OK
            /\ tagPair' = [pc |-> "updating", prior |-> mNodeInfoTags,
                           keys |-> keys(tags)]
            /\ nTagOps' = nTagOps + 1
    /\ UNCHANGED <<notTagVars, mNodeInfoTags>>

\* ArrasNode::updateTagsProc
updateTagsProc ==
    /\ mNodeInfoUpdateThread = "updateTagsProc"
    /\ LET current == mergeTags(mNodeInfoTags, tagArg) IN
       mNodeInfoTags' = IF validateTags(current) THEN current ELSE mNodeInfoTags
    /\ mNodeInfoIsUpdating' = FALSE
    /\ mNodeInfoUpdateThread' = "none"
    /\ tagPair' = [tagPair EXCEPT !.pc = "updated"]
    /\ UNCHANGED <<notTagVars, tagArg, tagCode, nTagOps>>

\* ArrasNode::deleteTags, given the list of names as a set
deleteTags(names) ==
    /\ nTagOps < MaxTagOps
    /\ IF mNodeInfoIsUpdating
       THEN /\ tagCode' = HTTP_RESOURCE_CONFLICT
            /\ UNCHANGED <<mNodeInfoIsUpdating, mNodeInfoUpdateThread, tagArg,
                           tagPair, nTagOps>>
       ELSE IF ~validateTags(removeTags(mNodeInfoTags, names))
       THEN /\ tagCode' = HTTP_BAD_REQUEST
            /\ tagPair' = IF tagPair.pc = "updated" /\ names = tagPair.keys
                          THEN [tagPair EXCEPT !.pc = "refused"] ELSE NoPair
            /\ UNCHANGED <<mNodeInfoIsUpdating, mNodeInfoUpdateThread, tagArg,
                           nTagOps>>
       ELSE /\ mNodeInfoIsUpdating' = TRUE
            /\ mNodeInfoUpdateThread' = "deleteTagsProc"
            /\ tagArg' = [n \in TagNames |-> IF n \in names THEN "p" ELSE Absent]
            /\ tagCode' = HTTP_OK
            /\ tagPair' = IF tagPair.pc = "updated" /\ names = tagPair.keys
                          THEN [tagPair EXCEPT !.pc = "deleting"] ELSE NoPair
            /\ nTagOps' = nTagOps + 1
    /\ UNCHANGED <<notTagVars, mNodeInfoTags>>

\* ArrasNode::deleteTagsProc
deleteTagsProc ==
    /\ mNodeInfoUpdateThread = "deleteTagsProc"
    /\ LET current == removeTags(mNodeInfoTags, keys(tagArg)) IN
       mNodeInfoTags' = IF validateTags(current) THEN current ELSE mNodeInfoTags
    /\ mNodeInfoIsUpdating' = FALSE
    /\ mNodeInfoUpdateThread' = "none"
    /\ tagPair' = IF tagPair.pc = "deleting"
                  THEN [tagPair EXCEPT !.pc = "deleted"] ELSE tagPair
    /\ UNCHANGED <<notTagVars, tagArg, tagCode, nTagOps>>

NextTags ==
    \/ \E tags \in TagObjects : updateTags(tags)
    \/ updateTagsProc
    \/ \E names \in SUBSET TagNames : deleteTags(names)
    \/ deleteTagsProc

SpecTags == Init /\ [][NextTags]_vars

\* ------------------------------------------------------------ queries and signals
\* ArrasSessions::activeSessionIds
activeSessionIds == {s \in mSessions : mState[s] # "Defunct"}

\* ArrasSessions::getStatus: 404 for an id that is not in the session map
getStatus(s) ==
    /\ SessionsMutexFree
    /\ lastResp' = Resp("status", IF s \in mSessions THEN HTTP_OK
                                  ELSE HTTP_NOT_FOUND)
    /\ UNCHANGED <<netVars, mClosed, mSessions, objVars, opVars, expVars,
                   createPc, modifyPc, nCreates, sdVars, mRouterHasRoutingData,
                   chanVars, rtrVars, connectedSeen>>

\* the Free check of Session::signal, with no test at all
signalCode_NoCheck(s) == 0

\* Session::checkIsFree as Session::signal calls it: 0, or the http code
signalCode(s) ==
    IF mState[s] = "Busy" THEN HTTP_RESOURCE_CONFLICT
    ELSE IF mState[s] = "Defunct" THEN HTTP_RESOURCE_CONFLICT
    ELSE 0

\* ArrasSessions::signalSession: getSession, then Session::signal
signalSession(s) ==
    /\ SessionsMutexFree
    /\ lastResp' = Resp("signal",
                        IF s \notin mSessions THEN HTTP_NOT_FOUND
                        ELSE IF signalCode(s) # 0 THEN signalCode(s)
                        ELSE HTTP_OK)
    /\ UNCHANGED <<netVars, mClosed, mSessions, objVars, opVars, expVars,
                   createPc, modifyPc, nCreates, sdVars, mRouterHasRoutingData,
                   chanVars, rtrVars, connectedSeen>>

\* the node with its session requests, status queries and signals
NextLinger ==
    \/ NextSession
    \/ \E s \in SessionIds : getStatus(s)
    \/ \E s \in SessionIds : signalSession(s)

SpecLinger == Init /\ [][NextLinger]_vars

\* ------------------------------------------------------------ router exit
\* Init is the router after createNodeRouter: both threads started, main in
\* waitForServiceDisconnected

\* the service connects to the router's IPC socket and registers as
\* REGISTRATION_CONTROL; the filter refuses a second service connection
serviceConnectFilter ==
    /\ mThread = "run"
    /\ svcLink = "none"
    /\ ~mServiceEndpoint
    /\ svcLink' = "up"
    /\ mServiceEndpoint' = TRUE
    /\ svcReceiveThread' = "poll"
    /\ svcSendThread' = "pop"
    /\ UNCHANGED <<notExitVars, svcInbox, mServiceToRouterQueue, svcSendQueue,
                   svcFlagged, svcToDelete, mServiceDisconnected, mRun, mThread,
                   mServiceToRouterThread, mainPc, nServiceMsgs>>

\* the service writes an envelope to its socket
serviceSends ==
    /\ svcLink = "up"
    /\ nServiceMsgs < MaxServiceMsgs
    /\ nServiceMsgs' = nServiceMsgs + 1
    /\ svcInbox' = svcInbox + 1
    /\ UNCHANGED <<notExitVars, svcLink, mServiceEndpoint, mServiceToRouterQueue,
                   svcSendQueue, svcReceiveThread, svcSendThread, svcFlagged,
                   svcToDelete, mServiceDisconnected, mRun, mThread,
                   mServiceToRouterThread, mainPc>>

\* the service's end of the connection goes away
serviceLost ==
    /\ svcLink = "up"
    /\ svcLink' = "lost"
    /\ UNCHANGED <<notExitVars, mServiceEndpoint, svcInbox, mServiceToRouterQueue,
                   svcSendQueue, svcReceiveThread, svcSendThread, svcFlagged,
                   svcToDelete, mServiceDisconnected, mRun, mThread,
                   mServiceToRouterThread, mainPc, nServiceMsgs>>

\* RemoteEndpoint::disconnect on the PEER_SERVICE endpoint, that sets the
\* flag main waits for; and a variant that does not
serviceDisconnected_NotSet == mServiceDisconnected' = mServiceDisconnected
serviceDisconnected == mServiceDisconnected' = TRUE

\* RemoteEndpoint::disconnect on the PEER_SERVICE endpoint:
\* serviceDisconnected, then flagForDestruction
serviceEndpointDisconnect ==
    /\ serviceDisconnected
    /\ svcFlagged' = TRUE
    /\ svcToDelete' = (svcToDelete \/ ~svcFlagged)

\* receiveThread of the service endpoint, one turn of its loop: an envelope
\* that is there is read and pushed on the service-to-router queue; the end
\* of the stream is an exception, and the thread disconnects and exits
serviceReceiveThread ==
    /\ svcReceiveThread = "poll"
    /\ IF svcInbox > 0
       THEN /\ svcInbox' = svcInbox - 1
            /\ mServiceToRouterQueue' = mServiceToRouterQueue + 1
            /\ UNCHANGED <<svcReceiveThread, svcFlagged, svcToDelete,
                           mServiceDisconnected>>
       ELSE /\ svcLink = "lost"
            /\ serviceEndpointDisconnect
            /\ svcReceiveThread' = "exited"
            /\ UNCHANGED <<svcInbox, mServiceToRouterQueue>>
    /\ UNCHANGED <<notExitVars, svcLink, mServiceEndpoint, svcSendQueue,
                   svcSendThread, mRun, mThread, mServiceToRouterThread, mainPc,
                   nServiceMsgs>>

\* sendThread of the service endpoint: pops an envelope and sends it; a send
\* on the lost connection is an exception, and the thread disconnects and
\* exits
serviceSendThread ==
    /\ svcSendThread = "pop"
    /\ svcSendQueue > 0
    /\ svcSendQueue' = svcSendQueue - 1
    /\ IF svcLink = "lost"
       THEN /\ serviceEndpointDisconnect
            /\ svcSendThread' = "exited"
       ELSE UNCHANGED <<svcSendThread, svcFlagged, svcToDelete,
                        mServiceDisconnected>>
    /\ UNCHANGED <<notExitVars, svcLink, mServiceEndpoint, svcInbox,
                   mServiceToRouterQueue, svcReceiveThread, mRun, mThread,
                   mServiceToRouterThread, mainPc, nServiceMsgs>>

\* NodeRouter::serviceToRouterProc, one turn of its loop: exit when mRun is
\* 0, else pop with a timeout and answer an envelope through notifyService
routerServiceToRouterProc ==
    /\ mServiceToRouterThread = "run"
    /\ IF mRun = 0
       THEN /\ mServiceToRouterThread' = "exited"
            /\ UNCHANGED <<mServiceToRouterQueue, svcSendQueue>>
       ELSE /\ mServiceToRouterQueue > 0
            /\ mServiceToRouterQueue' = mServiceToRouterQueue - 1
            /\ svcSendQueue' = svcSendQueue + IF mServiceEndpoint THEN 1 ELSE 0
            /\ UNCHANGED mServiceToRouterThread
    /\ UNCHANGED <<notExitVars, svcLink, mServiceEndpoint, svcInbox,
                   svcReceiveThread, svcSendThread, svcFlagged, svcToDelete,
                   mServiceDisconnected, mRun, mThread, mainPc, nServiceMsgs>>

\* NodeRouter::threadProc, one turn of its loop: exit when mRun is 0, else
\* poll (at most a second) and destroyEndpoints, which takes the service
\* endpoint off mEndpointsToDelete and finds it in none of the peer tables
routerThreadProc ==
    /\ mThread = "run"
    /\ IF mRun = 0
       THEN /\ mThread' = "exited"
            /\ UNCHANGED svcToDelete
       ELSE /\ svcToDelete
            /\ svcToDelete' = FALSE
            /\ UNCHANGED mThread
    /\ UNCHANGED <<notExitVars, svcLink, mServiceEndpoint, svcInbox,
                   mServiceToRouterQueue, svcSendQueue, svcReceiveThread,
                   svcSendThread, svcFlagged, mServiceDisconnected, mRun,
                   mServiceToRouterThread, mainPc, nServiceMsgs>>

\* main: waitForServiceDisconnected returns once mServiceDisconnected is set
waitForServiceDisconnected ==
    /\ mainPc = "waitForServiceDisconnected"
    /\ mServiceDisconnected
    /\ mainPc' = "destroyNodeRouter"
    /\ UNCHANGED <<notExitVars, svcLink, mServiceEndpoint, svcInbox,
                   mServiceToRouterQueue, svcSendQueue, svcReceiveThread,
                   svcSendThread, svcFlagged, svcToDelete, mServiceDisconnected,
                   mRun, mThread, mServiceToRouterThread, nServiceMsgs>>

\* destroyNodeRouter: the wait again, then NodeRouter::stop sets mRun to 0
destroyNodeRouter ==
    /\ mainPc = "destroyNodeRouter"
    /\ mServiceDisconnected
    /\ mRun' = 0
    /\ mainPc' = "join"
    /\ UNCHANGED <<notExitVars, svcLink, mServiceEndpoint, svcInbox,
                   mServiceToRouterQueue, svcSendQueue, svcReceiveThread,
                   svcSendThread, svcFlagged, svcToDelete, mServiceDisconnected,
                   mThread, mServiceToRouterThread, nServiceMsgs>>

\* NodeRouter::stop joins both threads; then delete nodeRouter, and main
\* returns
stopAndDelete ==
    /\ mainPc = "join"
    /\ mThread = "exited"
    /\ mServiceToRouterThread = "exited"
    /\ mainPc' = "returned"
    /\ UNCHANGED <<notExitVars, svcLink, mServiceEndpoint, svcInbox,
                   mServiceToRouterQueue, svcSendQueue, svcReceiveThread,
                   svcSendThread, svcFlagged, svcToDelete, mServiceDisconnected,
                   mRun, mThread, mServiceToRouterThread, nServiceMsgs>>

NextExit ==
    \/ serviceConnectFilter
    \/ serviceSends
    \/ serviceLost
    \/ serviceReceiveThread
    \/ serviceSendThread
    \/ routerServiceToRouterProc
    \/ routerThreadProc
    \/ waitForServiceDisconnected
    \/ destroyNodeRouter
    \/ stopAndDelete

SpecExit == Init /\ [][NextExit]_vars

\* every thread of the router that can take a step eventually takes it;
\* what the service does is up to the service
FairExit ==
    /\ WF_vars(serviceReceiveThread)
    /\ WF_vars(serviceSendThread)
    /\ WF_vars(routerServiceToRouterProc)
    /\ WF_vars(routerThreadProc)
    /\ WF_vars(waitForServiceDisconnected)
    /\ WF_vars(destroyNodeRouter)
    /\ WF_vars(stopAndDelete)

FairSpecExit == SpecExit /\ FairExit

\* a session that is created and then modified, with no signal, no delete
\* and no computation that exits by itself
NextModify ==
    \/ \E cfg \in CompConfigs : Session_asyncUpdateConfigUpTo(cfg, MaxModifyOps)
    \/ \E late \in SUBSET Computations, k \in 0..Cardinality(Computations) :
          Session_updateProc(late, k)

SpecModify == Init /\ [][NextModify]_vars

\* ------------------------------------------------------------ node peer receive
\* Init is a PEER_NODE endpoint after its handshake, its receiveThread polling

\* the service has the router store or drop a session's routing data
\* (serviceToRouterProc, Initialize and Delete)
addSessionRoutingData(s) ==
    /\ s \notin mRoutingTable
    /\ mRoutingTable' = mRoutingTable \cup {s}
    /\ UNCHANGED <<notRecvVars, nodeLink, nodeInbox, nodeLog, nodeFlagged,
                   nodeReceiveThread, nNodeMsgs>>

deleteSessionRoutingData(s) ==
    /\ s \in mRoutingTable
    /\ mRoutingTable' = mRoutingTable \ {s}
    /\ UNCHANGED <<notRecvVars, nodeLink, nodeInbox, nodeLog, nodeFlagged,
                   nodeReceiveThread, nNodeMsgs>>

\* the peer node writes an envelope to the connection
nodePeerSends(env) ==
    /\ nodeLink = "up"
    /\ nNodeMsgs < MaxNodeMsgs
    /\ nNodeMsgs' = nNodeMsgs + 1
    /\ nodeInbox' = Append(nodeInbox, env)
    /\ UNCHANGED <<notRecvVars, nodeLink, mRoutingTable, nodeLog, nodeFlagged,
                   nodeReceiveThread>>

\* the peer node closes the connection
nodePeerCloses ==
    /\ nodeLink = "up"
    /\ nodeLink' = "lost"
    /\ UNCHANGED <<notRecvVars, nodeInbox, mRoutingTable, nodeLog, nodeFlagged,
                   nodeReceiveThread, nNodeMsgs>>

\* what onEndpointActivity does with an envelope read from a PEER_NODE
\* endpoint: control messages and heartbeats are not routed, a data envelope
\* is routed with the routing data of its session, and dropped with a
\* warning when the session has none; and a variant that routes regardless
onEndpointActivity_NoLookup(env) ==
    IF env.classId = "ControlMessage" THEN "control"
    ELSE IF env.classId = "ExecutorHeartbeat" THEN "ignored"
    ELSE "routed"

onEndpointActivity(env) ==
    IF env.classId = "ControlMessage" THEN "control"
    ELSE IF env.classId = "ExecutorHeartbeat" THEN "ignored"
    ELSE IF env.session \notin mRoutingTable THEN "dropped"
    ELSE "routed"

\* receiveThread of the endpoint, one turn of its loop: an envelope that is
\* there is read and handled by onEndpointActivity; the end of the stream is
\* an exception, and the thread disconnects (flagForDestruction) and exits
nodeReceiveThreadStep ==
    /\ nodeReceiveThread = "poll"
    /\ IF nodeInbox # <<>>
       THEN /\ nodeLog' = Append(nodeLog, onEndpointActivity(Head(nodeInbox)))
            /\ nodeInbox' = Tail(nodeInbox)
            /\ UNCHANGED <<nodeFlagged, nodeReceiveThread>>
       ELSE /\ nodeLink = "lost"
            /\ nodeFlagged' = TRUE
            /\ nodeReceiveThread' = "exited"
            /\ UNCHANGED <<nodeLog, nodeInbox>>
    /\ UNCHANGED <<notRecvVars, nodeLink, mRoutingTable, nNodeMsgs>>

NextRecv ==
    \/ \E s \in RouteSessions : addSessionRoutingData(s)
    \/ \E s \in RouteSessions : deleteSessionRoutingData(s)
    \/ \E env \in NodeEnvelopes : nodePeerSends(env)
    \/ nodePeerCloses
    \/ nodeReceiveThreadStep

SpecRecv == Init /\ [][NextRecv]_vars

\* ------------------------------------------------------------ client stash
\* Init is the entry node of a session whose client has not connected;
\* envelopes for the client are numbered in the order their routing starts

\* sendToLocalClient, its findClientPeer: a thread that routes an envelope
\* to the session's client (an endpoint's receiveThread or the
\* serviceToRouter thread) looks the client up and lets the registry lock go
sendToLocalClient_find(t) ==
    /\ routePc[t] = "idle"
    /\ nClientEnvs < MaxClientEnvs
    /\ nClientEnvs' = nClientEnvs + 1
    /\ routeEnv' = [routeEnv EXCEPT ![t] = nClientEnvs + 1]
    /\ routeClient' = [routeClient EXCEPT ![t] = mClient]
    /\ routePc' = [routePc EXCEPT ![t] = "found"]
    /\ UNCHANGED <<notStashVars, mClient, mPendingEnvelopes, clientQueue,
                   clientFlagged, nClientConns, stashed>>

\* the client PeerManager::stashEnvelope finds: the one registered now, as
\* it looks again with the lock held; and the one sendToLocalClient found
\* before, as a variant
stashEnvelope_findStale(t) == routeClient[t]
stashEnvelope_find(t) == mClient

\* sendToLocalClient, the rest: the envelope goes on the send queue of the
\* client found, and with none found to PeerManager::stashEnvelope, which
\* queues it for a client that has registered since and else stashes it
sendToLocalClient_send(t) ==
    LET env == routeEnv[t]
        to == IF routeClient[t] # NoClient THEN routeClient[t]
              ELSE stashEnvelope_find(t)
    IN
    /\ routePc[t] = "found"
    /\ routePc' = [routePc EXCEPT ![t] = "idle"]
    /\ IF to # NoClient
       THEN /\ clientQueue' = [clientQueue EXCEPT ![to] = Append(@, env)]
            /\ UNCHANGED <<mPendingEnvelopes, stashed>>
       ELSE /\ mPendingEnvelopes' = Append(mPendingEnvelopes, env)
            /\ stashed' = Append(stashed, env)
            /\ UNCHANGED clientQueue
    /\ UNCHANGED <<notStashVars, mClient, clientFlagged, nClientConns,
                   nClientEnvs, routeEnv, routeClient>>

\* the connect filter for clients, run by the router thread for a client
\* registration: with a client registered it throws and the connection is
\* refused; else it makes the endpoint and PeerManager::trackClient registers
\* it and puts every stashed envelope on its queue, with the lock held
trackClient ==
    LET conn == nClientConns + 1 IN
    /\ nClientConns < MaxClientConns
    /\ mClient = NoClient
    /\ nClientConns' = conn
    /\ mClient' = conn
    /\ clientQueue' = [clientQueue EXCEPT ![conn] = @ \o mPendingEnvelopes]
    /\ UNCHANGED <<notStashVars, mPendingEnvelopes, clientFlagged, nClientEnvs,
                   routePc, routeEnv, routeClient, stashed>>

\* the client closes its connection: the endpoint's receiveThread
\* disconnects, which flags the endpoint for destruction
clientCloses ==
    /\ mClient # NoClient
    /\ mClient \notin clientFlagged
    /\ clientFlagged' = clientFlagged \cup {mClient}
    /\ UNCHANGED <<notStashVars, mClient, mPendingEnvelopes, clientQueue,
                   nClientConns, nClientEnvs, routePc, routeEnv, routeClient,
                   stashed>>

\* NodeRouter::kickClient, run by the serviceToRouter thread: a client that
\* is registered is flagged for destruction, and with none registered the
\* stashed envelopes of the session are cleared
kickClient ==
    /\ IF mClient # NoClient
       THEN /\ clientFlagged' = clientFlagged \cup {mClient}
            /\ UNCHANGED mPendingEnvelopes
       ELSE /\ mPendingEnvelopes' = <<>>
            /\ UNCHANGED clientFlagged
    /\ UNCHANGED <<notStashVars, mClient, clientQueue, nClientConns,
                   nClientEnvs, routePc, routeEnv, routeClient, stashed>>

\* destroyEndpoints in the router thread: PeerManager::destroyPeer takes a
\* flagged client endpoint out of mClients
destroyClientPeer ==
    /\ mClient # NoClient
    /\ mClient \in clientFlagged
    /\ mClient' = NoClient
    /\ UNCHANGED <<notStashVars, mPendingEnvelopes, clientQueue, clientFlagged,
                   nClientConns, nClientEnvs, routePc, routeEnv, routeClient,
                   stashed>>

NextStash ==
    \/ \E t \in RouteThreads : sendToLocalClient_find(t)
    \/ \E t \in RouteThreads : sendToLocalClient_send(t)
    \/ trackClient
    \/ clientCloses
    \/ kickClient
    \/ destroyClientPeer

SpecStash == Init /\ [][NextStash]_vars

\* ------------------------------------------------------------ signal steps
\* Session::signal step by step: checkIsFree takes mStateMutex, tests
\* mState and lets the mutex go; what follows runs without it

\* the state outside the session and the signal call
notCompSignalVars ==
    <<sessVars, nodeVars, queueVars, peerVars, routeVars, eventVars, banVars,
      tagVars, exitVars, recvVars, stashVars, readyVars, discoVars, runVars, acceptVars>>

\* Session::signal up to the return of checkIsFree
Session_signal_checkIsFree(status) ==
    /\ signalPc = "none"
    /\ nSignals < MaxSignals
    /\ IF checkIsFree # 0
       THEN /\ sesResp' = Resp("signal", checkIsFree)
            /\ UNCHANGED signalPc
       ELSE /\ signalPc' = status
            /\ UNCHANGED sesResp
    /\ UNCHANGED <<notCompSignalVars, sesState, sesComputations, sesThread,
                   sesConfig, sesOp, processState, mSentGo, control,
                   terminateCalls, spawnCalls, opFailed, nSignals, nOps>>

\* Session::signal after checkIsFree: signalAll, under mComputationsMutex,
\* for "run"; signalEngineReady for "engineReady"
Session_signal_apply ==
    /\ signalPc # "none"
    /\ signalPc' = "none"
    /\ sesResp' = Resp("signal", HTTP_OK)
    /\ IF signalPc = "run"
       THEN /\ control' = [c \in Computations |->
                             IF c \in sesComputations
                             THEN Computation_signal(c) ELSE control[c]]
            /\ mSentGo' = [c \in Computations |->
                             mSentGo[c] \/ (c \in sesComputations
                                            /\ processState[c] = "Spawned")]
            /\ nSignals' = nSignals + 1
       ELSE UNCHANGED <<control, mSentGo, nSignals>>
    /\ UNCHANGED <<notCompSignalVars, sesState, sesComputations, sesThread,
                   sesConfig, sesOp, processState, terminateCalls, spawnCalls,
                   opFailed, nOps>>

NextSignal ==
    \/ \E status \in SignalStatus : Session_signal_checkIsFree(status)
    \/ Session_signal_apply
    \/ \E cfg \in CompConfigs : Session_asyncUpdateConfig(cfg)
    \/ \E late \in SUBSET Computations, k \in 0..Cardinality(Computations) :
          Session_updateProc(late, k)
    \/ Session_asyncDelete
    \/ \E late \in SUBSET Computations : Session_deleteProc(late)

SpecSignal == Init /\ [][NextSignal]_vars

\* ------------------------------------------------------------ computation ready
\* Init is a session whose computations have been spawned and have not
\* registered with the router's IPC socket yet

\* the IPC connect filter, in the router thread, up to notifyComputationStatus:
\* the "ready" status of the registering computation goes to the service
ipcFilter_notifyComputationStatus(c) ==
    /\ ipcPc[c] = "none"
    /\ \A d \in Computations : ipcPc[d] # "notified"
    /\ ipcPc' = [ipcPc EXCEPT ![c] = "notified"]
    /\ readyToService' = Append(readyToService, c)
    /\ UNCHANGED <<notReadyVars, ipcTracked, readyEvents, goToRouter, goQueued,
                   goNotFound, runSignalled>>

\* the IPC connect filter, the rest: the endpoint is made and trackIpc
\* registers it
ipcFilter_trackIpc(c) ==
    /\ ipcPc[c] = "notified"
    /\ ipcPc' = [ipcPc EXCEPT ![c] = "tracked"]
    /\ ipcTracked' = ipcTracked \cup {c}
    /\ UNCHANGED <<notReadyVars, readyToService, readyEvents, goToRouter,
                   goQueued, goNotFound, runSignalled>>

\* ArrasController::handleMessage on a ComputationStatusMessage: the
\* computationReady event of the computation is raised
handleMessage_computationReady ==
    /\ readyToService # <<>>
    /\ readyToService' = Tail(readyToService)
    /\ readyEvents' = readyEvents \cup {Head(readyToService)}
    /\ UNCHANGED <<notReadyVars, ipcPc, ipcTracked, goToRouter, goQueued,
                   goNotFound, runSignalled>>

\* the Coordinator has had computationReady for every computation and
\* signals "run": Computation::signal has sendControl send each a "go"
signalRun_sendControl ==
    /\ ~runSignalled
    /\ readyEvents = Computations
    /\ runSignalled' = TRUE
    /\ goToRouter' = Computations
    /\ UNCHANGED <<notReadyVars, ipcPc, ipcTracked, readyToService, readyEvents,
                   goQueued, goNotFound>>

\* sendToLocalComputation: the envelope is queued on the endpoint
\* findIpcPeer finds; with none found an error is logged and it is dropped
sendToLocalComputation(c) ==
    IF c \in ipcTracked
    THEN /\ goQueued' = goQueued \cup {c}
         /\ UNCHANGED goNotFound
    ELSE /\ goNotFound' = goNotFound \cup {c}
         /\ UNCHANGED goQueued

\* serviceToRouterProc routes a control message the service pre-addressed
serviceToRouterProc_control(c) ==
    /\ c \in goToRouter
    /\ goToRouter' = goToRouter \ {c}
    /\ sendToLocalComputation(c)
    /\ UNCHANGED <<notReadyVars, ipcPc, ipcTracked, readyToService, readyEvents,
                   runSignalled>>

NextReady ==
    \/ \E c \in Computations : ipcFilter_notifyComputationStatus(c)
    \/ \E c \in Computations : ipcFilter_trackIpc(c)
    \/ handleMessage_computationReady
    \/ signalRun_sendControl
    \/ \E c \in Computations : serviceToRouterProc_control(c)

SpecReady == Init /\ [][NextReady]_vars

\* ------------------------------------------------------------ client disconnect
\* Init is a client endpoint after its handshake, both of its threads
\* running, nothing queued for the client

\* ThreadedNodeRouter::notifyClientDisconnected: a ClientConnectionStatus
\* with a reason other than "connected" goes to the service
notifyClientDisconnected ==
    /\ statusToService' = statusToService + 1
    /\ nDisconnectedNotified' = nDisconnectedNotified + 1

\* the client sends the "disconnect" control message
clientSendsDisconnect ==
    /\ cliLink = "up"
    /\ ~cliSentDisconnect
    /\ cliSentDisconnect' = TRUE
    /\ cliInbox' = cliInbox + 1
    /\ UNCHANGED <<notDiscoVars, cliLink, cliSendQueue, cliReceiveThread,
                   cliSendThread, cliFlagged, cliDestroyed, statusToService,
                   nDisconnectedNotified, disconnectedEvents,
                   terminateRequests>>

\* the client closes or loses its socket
clientDropsSocket ==
    /\ cliLink = "up"
    /\ cliLink' = "closed"
    /\ UNCHANGED <<notDiscoVars, cliInbox, cliSentDisconnect, cliSendQueue,
                   cliReceiveThread, cliSendThread, cliFlagged, cliDestroyed,
                   statusToService, nDisconnectedNotified,
                   disconnectedEvents, terminateRequests>>

\* an envelope for the client is queued on the endpoint
clientQueueEnvelope ==
    /\ ~cliDestroyed
    /\ cliSendQueue = 0
    /\ cliSendQueue' = 1
    /\ UNCHANGED <<notDiscoVars, cliLink, cliInbox, cliSentDisconnect,
                   cliReceiveThread, cliSendThread, cliFlagged, cliDestroyed,
                   statusToService, nDisconnectedNotified,
                   disconnectedEvents, terminateRequests>>

\* receiveThread of the client endpoint, one turn: a "disconnect" control
\* message read by onEndpointActivity is notified as clientShutdown; the end
\* of the stream is an exception, and the thread calls disconnect, which
\* notifies clientDroppedConnection and flags the endpoint, and exits
clientReceiveThread ==
    /\ cliReceiveThread = "run"
    /\ IF cliInbox > 0
       THEN /\ cliInbox' = cliInbox - 1
            /\ notifyClientDisconnected
            /\ UNCHANGED <<cliFlagged, cliReceiveThread>>
       ELSE /\ cliLink = "closed"
            /\ notifyClientDisconnected
            /\ cliFlagged' = TRUE
            /\ cliReceiveThread' = "exited"
            /\ UNCHANGED cliInbox
    /\ UNCHANGED <<notDiscoVars, cliLink, cliSentDisconnect, cliSendQueue,
                   cliSendThread, cliDestroyed, disconnectedEvents,
                   terminateRequests>>

\* sendThread of the client endpoint, one turn: it pops an envelope and
\* sends it; on a closed socket the send throws, and the thread calls
\* disconnect and exits
clientSendThread ==
    /\ cliSendThread = "run"
    /\ cliSendQueue > 0
    /\ cliSendQueue' = 0
    /\ IF cliLink = "up"
       THEN UNCHANGED <<statusToService, nDisconnectedNotified, cliFlagged,
                        cliSendThread>>
       ELSE /\ notifyClientDisconnected
            /\ cliFlagged' = TRUE
            /\ cliSendThread' = "exited"
    /\ UNCHANGED <<notDiscoVars, cliLink, cliInbox, cliSentDisconnect,
                   cliReceiveThread, cliDestroyed, disconnectedEvents,
                   terminateRequests>>

\* destroyEndpoints in the router thread takes the flagged endpoint off the
\* deletion queue and untracks it; ~RemoteEndpoint shuts both threads down
\* and joins them
clientDestroyEndpoint ==
    /\ cliFlagged
    /\ ~cliDestroyed
    /\ cliDestroyed' = TRUE
    /\ cliReceiveThread' = "exited"
    /\ cliSendThread' = "exited"
    /\ UNCHANGED <<notDiscoVars, cliLink, cliInbox, cliSentDisconnect,
                   cliSendQueue, cliFlagged, statusToService,
                   nDisconnectedNotified, disconnectedEvents,
                   terminateRequests>>

\* ArrasController::handleMessage on a ClientConnectionStatus whose reason
\* is not "connected": a sessionClientDisconnected event is raised
handleMessage_clientDisconnected ==
    /\ statusToService > 0
    /\ statusToService' = statusToService - 1
    /\ disconnectedEvents' = disconnectedEvents + 1
    /\ UNCHANGED <<notDiscoVars, cliLink, cliInbox, cliSentDisconnect,
                   cliSendQueue, cliReceiveThread, cliSendThread, cliFlagged,
                   cliDestroyed, nDisconnectedNotified, terminateRequests>>

\* NodeService::sendEvent on a sessionClientDisconnected event:
\* notifyTerminateSession sends DELETE /sessions/<id> to the Coordinator
sendEvent_clientDisconnected ==
    /\ terminateRequests < disconnectedEvents
    /\ terminateRequests' = terminateRequests + 1
    /\ UNCHANGED <<notDiscoVars, cliLink, cliInbox, cliSentDisconnect,
                   cliSendQueue, cliReceiveThread, cliSendThread, cliFlagged,
                   cliDestroyed, statusToService, nDisconnectedNotified,
                   disconnectedEvents>>

NextDisco ==
    \/ clientSendsDisconnect
    \/ clientDropsSocket
    \/ clientQueueEnvelope
    \/ clientReceiveThread
    \/ clientSendThread
    \/ clientDestroyEndpoint
    \/ handleMessage_clientDisconnected
    \/ sendEvent_clientDisconnected

SpecDisco == Init /\ [][NextDisco]_vars

\* ------------------------------------------------------------ node run loop
\* ArrasNode::run on the main thread and the callers of ArrasNode::stopRunning.
\* Init is the node after its constructor (mRun false) and initialize(): the
\* HTTP service, the event thread, the signal handlers and the preemption
\* monitor are all up before main calls run().

\* ArrasNode::stopRunning, called by src: takes mRunMutex, clears mRun and
\* notifies the condition
ArrasNode_stopRunning(src) ==
    /\ nStops < MaxStops
    /\ nodeRunFlag' = FALSE
    /\ stopRequested' = stopRequested \cup {src}
    /\ nStops' = nStops + 1
    /\ UNCHANGED <<runPc, nodeEventQueue, nNodeEvents>>
    /\ UNCHANGED notRunVars

\* NodeService::handleEvent queues an event of the given type for the event
\* thread
NodeService_handleEvent(type) ==
    /\ nNodeEvents < MaxNodeEvents
    /\ nodeEventQueue' = Append(nodeEventQueue, type)
    /\ nNodeEvents' = nNodeEvents + 1
    /\ UNCHANGED <<nodeRunFlag, runPc, stopRequested, nStops>>
    /\ UNCHANGED notRunVars

\* NodeService::sendEventsProc pops one event; sendEvent hands a
\* shutdownWithError event to notifyShutdownWithError, which calls
\* stopRunning
NodeService_sendEventsProc ==
    /\ nodeEventQueue # <<>>
    /\ nodeEventQueue' = Tail(nodeEventQueue)
    /\ IF Head(nodeEventQueue) = "shutdownWithError"
          THEN /\ nodeRunFlag' = FALSE
               /\ stopRequested' = stopRequested \cup {"shutdownWithError"}
          ELSE UNCHANGED <<nodeRunFlag, stopRequested>>
    /\ UNCHANGED <<runPc, nStops, nNodeEvents>>
    /\ UNCHANGED notRunVars

\* ArrasNode::run, entry: takes mRunMutex and assigns mRun = true
ArrasNode_run_enter ==
    /\ runPc = "notStarted"
    /\ nodeRunFlag' = TRUE
    /\ runPc' = "waiting"
    /\ UNCHANGED <<stopRequested, nStops, nodeEventQueue, nNodeEvents>>
    /\ UNCHANGED notRunVars

\* ArrasNode::run, while (mRun) mRunCondition.wait(lock): leaves the loop
\* once mRun is false
ArrasNode_run_wait ==
    /\ runPc = "waiting"
    /\ ~nodeRunFlag
    /\ runPc' = "shutdownAll"
    /\ UNCHANGED <<nodeRunFlag, stopRequested, nStops, nodeEventQueue,
                   nNodeEvents>>
    /\ UNCHANGED notRunVars

\* ArrasNode::run, mSessions->shutdownAll("node exiting")
ArrasNode_run_shutdownAll ==
    /\ runPc = "shutdownAll"
    /\ runPc' = "drainEvents"
    /\ UNCHANGED <<nodeRunFlag, stopRequested, nStops, nodeEventQueue,
                   nNodeEvents>>
    /\ UNCHANGED notRunVars

\* ArrasNode::run, mNodeService->drainEvents(DRAIN_EVENTS_TIMEOUT): returns
\* when the queue is empty or the timeout has passed
ArrasNode_run_drainEvents ==
    /\ runPc = "drainEvents"
    /\ runPc' = "deregisterNode"
    /\ UNCHANGED <<nodeRunFlag, stopRequested, nStops, nodeEventQueue,
                   nNodeEvents>>
    /\ UNCHANGED notRunVars

\* ArrasNode::run, deregisterNode() and return
ArrasNode_run_deregisterNode ==
    /\ runPc = "deregisterNode"
    /\ runPc' = "returned"
    /\ UNCHANGED <<nodeRunFlag, stopRequested, nStops, nodeEventQueue,
                   nNodeEvents>>
    /\ UNCHANGED notRunVars

NextRun ==
    \/ \E src \in DirectStopSources : ArrasNode_stopRunning(src)
    \/ \E type \in NodeEventTypes : NodeService_handleEvent(type)
    \/ NodeService_sendEventsProc
    \/ ArrasNode_run_enter
    \/ ArrasNode_run_wait
    \/ ArrasNode_run_shutdownAll
    \/ ArrasNode_run_drainEvents
    \/ ArrasNode_run_deregisterNode

SpecRun == Init /\ [][NextRun]_vars

\* the main thread and the event thread keep running; nothing obliges a
\* caller of stopRunning or a sender of events to act
FairRun ==
    /\ WF_vars(NodeService_sendEventsProc)
    /\ WF_vars(ArrasNode_run_enter)
    /\ WF_vars(ArrasNode_run_wait)
    /\ WF_vars(ArrasNode_run_shutdownAll)
    /\ WF_vars(ArrasNode_run_drainEvents)
    /\ WF_vars(ArrasNode_run_deregisterNode)

FairSpecRun == SpecRun /\ FairRun

\* ------------------------------------------------------------ accept loop
\* The router's accept thread (NodeRouter::threadProc), the connections it
\* is offered and the endpoints it creates for them. Every connection is
\* for the one session or the one computation, so that a second client, a
\* second computation registration and a second CONTROL connection meet the
\* first. Node connections are in the node to node section. Init is the
\* router with its accept thread polling and no connection yet.

\* a connection is made to one of the router's listen sockets; it will send
\* a registration block of type reg
peerConnects(c, reg) ==
    /\ connState[c] = "none"
    /\ connState' = [connState EXCEPT ![c] = "pending"]
    /\ connReg' = [connReg EXCEPT ![c] = reg]
    /\ connUp' = [connUp EXCEPT ![c] = TRUE]
    /\ UNCHANGED <<epFlagged, acceptToDelete, epReceiveThread, epSendThread,
                   accClient, accIpc, accServiceEndpoint,
                   accServiceDisconnected, accRun, accPc, accHeld,
                   queuedCount, destroyedBy>>
    /\ UNCHANGED notAcceptVars

\* the remote side of an accepted connection goes away
peerDrops(c) ==
    /\ connState[c] \in {"tracked", "released"}
    /\ connUp[c]
    /\ connUp' = [connUp EXCEPT ![c] = FALSE]
    /\ UNCHANGED <<connReg, connState, epFlagged, acceptToDelete,
                   epReceiveThread, epSendThread, accClient, accIpc,
                   accServiceEndpoint, accServiceDisconnected, accRun, accPc,
                   accHeld, queuedCount, destroyedBy>>
    /\ UNCHANGED notAcceptVars

\* the filter chain turns the connection down: a registration block that
\* cannot be read or is not valid, a client for a session that has a client
\* peer, a CONTROL connection when the service endpoint is set
filterRefuses(c, readOk) ==
    \/ ~readOk
    \/ connReg[c] = "client" /\ accClient # NoConn
    \/ connReg[c] = "control" /\ accServiceEndpoint # NoConn

\* the state of an endpoint that the registry has let go of: it is deleted
\* at once unless a routing thread still holds a Ptr to it
untracked(c) == IF accHeld[c] THEN "released" ELSE "destroyed"

\* a client connect filter that does not look for an existing client peer
\* and a service connect filter that does not look at the service endpoint
ListenServer_poll_AcceptDuplicate(c, readOk) ==
    /\ accPc = "poll"
    /\ accRun = 1
    /\ connState[c] = "pending"
    /\ accPc' = "destroyEndpoints"
    /\ IF ~readOk
       THEN /\ connState' = [connState EXCEPT ![c] = "refused"]
            /\ connUp' = [connUp EXCEPT ![c] = FALSE]
            /\ UNCHANGED <<epReceiveThread, epSendThread, accClient, accIpc,
                           accServiceEndpoint, destroyedBy>>
       ELSE /\ connState' = [connState EXCEPT ![c] = "tracked"]
            /\ epReceiveThread' = [epReceiveThread EXCEPT ![c] = "run"]
            /\ epSendThread' = [epSendThread EXCEPT ![c] = "run"]
            /\ accClient' = IF connReg[c] = "client" THEN c ELSE accClient
            /\ accIpc' = IF connReg[c] = "executor" THEN c ELSE accIpc
            /\ accServiceEndpoint' =
                  IF connReg[c] = "control" THEN c ELSE accServiceEndpoint
            /\ UNCHANGED <<connUp, destroyedBy>>
    /\ UNCHANGED <<connReg, epFlagged, acceptToDelete,
                   accServiceDisconnected, accRun, accHeld, queuedCount>>
    /\ UNCHANGED notAcceptVars

\* a ListenServer::poll without the catch around the filter chain: the
\* filter's exception reaches threadProc, which leaves its loop
ListenServer_poll_NoCatch(c, readOk) ==
    /\ accPc = "poll"
    /\ accRun = 1
    /\ connState[c] = "pending"
    /\ IF filterRefuses(c, readOk)
       THEN /\ accPc' = "exited"
            /\ UNCHANGED <<connState, connUp, epReceiveThread, epSendThread,
                           accClient, accIpc, accServiceEndpoint, destroyedBy>>
       ELSE /\ accPc' = "destroyEndpoints"
            /\ connState' = [connState EXCEPT ![c] = "tracked"]
            /\ epReceiveThread' = [epReceiveThread EXCEPT ![c] = "run"]
            /\ epSendThread' = [epSendThread EXCEPT ![c] = "run"]
            /\ accClient' = IF connReg[c] = "client" THEN c ELSE accClient
            /\ accIpc' = IF connReg[c] = "executor" THEN c ELSE accIpc
            /\ accServiceEndpoint' =
                  IF connReg[c] = "control" THEN c ELSE accServiceEndpoint
            /\ UNCHANGED <<connUp, destroyedBy>>
    /\ UNCHANGED <<connReg, epFlagged, acceptToDelete,
                   accServiceDisconnected, accRun, accHeld, queuedCount>>
    /\ UNCHANGED notAcceptVars

\* threadProc, server.poll with a new connection c: acceptAll, then the
\* filter chain. A filter that throws (an unreadable registration, a second
\* client, a second CONTROL) or finds the registration failed leaves the
\* peer to be shut down and deleted by poll. Otherwise the endpoint is
\* constructed, its two threads start and it is tracked: trackClient,
\* trackIpc (which replaces an entry under the computation id; the endpoint
\* it replaces is let go of) or setServiceEndpoint.
ListenServer_poll(c, readOk) ==
    /\ accPc = "poll"
    /\ accRun = 1
    /\ connState[c] = "pending"
    /\ accPc' = "destroyEndpoints"
    /\ IF filterRefuses(c, readOk)
       THEN /\ connState' = [connState EXCEPT ![c] = "refused"]
            /\ connUp' = [connUp EXCEPT ![c] = FALSE]
            /\ UNCHANGED <<epReceiveThread, epSendThread, accClient, accIpc,
                           accServiceEndpoint, destroyedBy>>
       ELSE LET old == IF connReg[c] = "executor" THEN accIpc ELSE NoConn
                gone == old # NoConn /\ ~accHeld[old]
            IN  /\ connState' =
                      [d \in Conns |->
                          IF d = c THEN "tracked"
                          ELSE IF d = old THEN untracked(d)
                          ELSE connState[d]]
                /\ epReceiveThread' =
                      [d \in Conns |->
                          IF d = c THEN "run"
                          ELSE IF d = old /\ gone THEN "exited"
                          ELSE epReceiveThread[d]]
                /\ epSendThread' =
                      [d \in Conns |->
                          IF d = c THEN "run"
                          ELSE IF d = old /\ gone THEN "exited"
                          ELSE epSendThread[d]]
                /\ destroyedBy' =
                      [d \in Conns |->
                          IF d = old /\ gone THEN "filter" ELSE destroyedBy[d]]
                /\ accClient' = IF connReg[c] = "client" THEN c ELSE accClient
                /\ accIpc' = IF connReg[c] = "executor" THEN c ELSE accIpc
                /\ accServiceEndpoint' =
                      IF connReg[c] = "control" THEN c ELSE accServiceEndpoint
                /\ UNCHANGED connUp
    /\ UNCHANGED <<connReg, epFlagged, acceptToDelete,
                   accServiceDisconnected, accRun, accHeld, queuedCount>>
    /\ UNCHANGED notAcceptVars

\* threadProc, server.poll that returns after its timeout with no new
\* connection
ListenServer_pollTimeout ==
    /\ accPc = "poll"
    /\ accRun = 1
    /\ accPc' = "destroyEndpoints"
    /\ UNCHANGED <<connReg, connState, connUp, epFlagged, acceptToDelete,
                   epReceiveThread, epSendThread, accClient, accIpc,
                   accServiceEndpoint, accServiceDisconnected, accRun,
                   accHeld, queuedCount, destroyedBy>>
    /\ UNCHANGED notAcceptVars

\* threadProc, server.poll that throws: ::poll fails or accepting fails. The
\* exception is caught by threadProc, which leaves its loop
ListenServer_pollThrows ==
    /\ accPc = "poll"
    /\ accRun = 1
    /\ accPc' = "exited"
    /\ UNCHANGED <<connReg, connState, connUp, epFlagged, acceptToDelete,
                   epReceiveThread, epSendThread, accClient, accIpc,
                   accServiceEndpoint, accServiceDisconnected, accRun,
                   accHeld, queuedCount, destroyedBy>>
    /\ UNCHANGED notAcceptVars

\* threadProc, the loop test: the thread ends when mRun is 0
threadProc_exit ==
    /\ accPc = "poll"
    /\ accRun = 0
    /\ accPc' = "exited"
    /\ UNCHANGED <<connReg, connState, connUp, epFlagged, acceptToDelete,
                   epReceiveThread, epSendThread, accClient, accIpc,
                   accServiceEndpoint, accServiceDisconnected, accRun,
                   accHeld, queuedCount, destroyedBy>>
    /\ UNCHANGED notAcceptVars

\* ThreadedNodeRouter::destroyEndpoints: every pointer on mEndpointsToDelete
\* is popped and untracked; PeerManager::destroyPeer erases the entry that
\* holds it and finds the service endpoint, or an endpoint that was replaced,
\* in no table
destroyEndpoints_sweep ==
    /\ accPc = "destroyEndpoints"
    /\ accPc' = "poll"
    /\ acceptToDelete' = <<>>
    /\ LET swept == {c \in Conns :
                        /\ \E i \in DOMAIN acceptToDelete : acceptToDelete[i] = c
                        /\ connState[c] = "tracked"
                        /\ c \in {accClient, accIpc}}
       IN  /\ accClient' = IF accClient \in swept THEN NoConn ELSE accClient
           /\ accIpc' = IF accIpc \in swept THEN NoConn ELSE accIpc
           /\ connState' =
                 [c \in Conns |->
                     IF c \in swept THEN untracked(c) ELSE connState[c]]
           /\ epReceiveThread' =
                 [c \in Conns |->
                     IF c \in swept /\ ~accHeld[c] THEN "exited"
                     ELSE epReceiveThread[c]]
           /\ epSendThread' =
                 [c \in Conns |->
                     IF c \in swept /\ ~accHeld[c] THEN "exited"
                     ELSE epSendThread[c]]
           /\ destroyedBy' =
                 [c \in Conns |->
                     IF c \in swept /\ ~accHeld[c] THEN "sweep"
                     ELSE destroyedBy[c]]
    /\ UNCHANGED <<connReg, connUp, epFlagged, accServiceEndpoint,
                   accServiceDisconnected, accRun, accHeld, queuedCount>>
    /\ UNCHANGED notAcceptVars

\* a flagForDestruction that queues the endpoint whether or not it is
\* flagged already
RemoteEndpoint_flagForDestruction_Unguarded(c) ==
    /\ epFlagged' = [epFlagged EXCEPT ![c] = TRUE]
    /\ acceptToDelete' = Append(acceptToDelete, c)
    /\ queuedCount' = [queuedCount EXCEPT ![c] = @ + 1]

\* RemoteEndpoint::flagForDestruction, under mPeerSetMutex: the endpoint is
\* queued for destruction unless mFlaggedForDestruction is set already
RemoteEndpoint_flagForDestruction(c) ==
    IF epFlagged[c]
    THEN UNCHANGED <<epFlagged, acceptToDelete, queuedCount>>
    ELSE /\ epFlagged' = [epFlagged EXCEPT ![c] = TRUE]
         /\ acceptToDelete' = Append(acceptToDelete, c)
         /\ queuedCount' = [queuedCount EXCEPT ![c] = @ + 1]

\* RemoteEndpoint::disconnect: serviceDisconnected for the PEER_SERVICE
\* endpoint, then flagForDestruction
RemoteEndpoint_disconnect(c) ==
    /\ accServiceDisconnected' =
          (accServiceDisconnected \/ connReg[c] = "control")
    /\ RemoteEndpoint_flagForDestruction(c)

\* receiveThread of endpoint c: the poll or the read fails on the lost
\* connection; the thread disconnects and exits
epReceiveFails(c) ==
    /\ connState[c] \in {"tracked", "released"}
    /\ epReceiveThread[c] = "run"
    /\ ~connUp[c]
    /\ RemoteEndpoint_disconnect(c)
    /\ epReceiveThread' = [epReceiveThread EXCEPT ![c] = "exited"]
    /\ UNCHANGED <<connReg, connState, connUp, epSendThread, accClient,
                   accIpc, accServiceEndpoint, accRun, accPc, accHeld,
                   destroyedBy>>
    /\ UNCHANGED notAcceptVars

\* sendThread of endpoint c: a send fails on the lost connection; the
\* thread disconnects and exits
epSendFails(c) ==
    /\ connState[c] \in {"tracked", "released"}
    /\ epSendThread[c] = "run"
    /\ ~connUp[c]
    /\ RemoteEndpoint_disconnect(c)
    /\ epSendThread' = [epSendThread EXCEPT ![c] = "exited"]
    /\ UNCHANGED <<connReg, connState, connUp, epReceiveThread, accClient,
                   accIpc, accServiceEndpoint, accRun, accPc, accHeld,
                   destroyedBy>>
    /\ UNCHANGED notAcceptVars

\* a routing thread looks the client's or the computation's endpoint up and
\* keeps the Ptr while it queues an envelope
routeFindPeer(c) ==
    /\ connState[c] = "tracked"
    /\ c \in {accClient, accIpc}
    /\ ~accHeld[c]
    /\ accHeld' = [accHeld EXCEPT ![c] = TRUE]
    /\ UNCHANGED <<connReg, connState, connUp, epFlagged, acceptToDelete,
                   epReceiveThread, epSendThread, accClient, accIpc,
                   accServiceEndpoint, accServiceDisconnected, accRun, accPc,
                   queuedCount, destroyedBy>>
    /\ UNCHANGED notAcceptVars

\* the routing thread's Ptr goes out of scope: when the registry has let go
\* of the endpoint this is the last reference, and the routing thread runs
\* ~RemoteEndpoint
routeReleasePeer(c) ==
    /\ accHeld[c]
    /\ accHeld' = [accHeld EXCEPT ![c] = FALSE]
    /\ IF connState[c] = "released"
       THEN /\ connState' = [connState EXCEPT ![c] = "destroyed"]
            /\ epReceiveThread' = [epReceiveThread EXCEPT ![c] = "exited"]
            /\ epSendThread' = [epSendThread EXCEPT ![c] = "exited"]
            /\ destroyedBy' = [destroyedBy EXCEPT ![c] = "routing"]
       ELSE UNCHANGED <<connState, epReceiveThread, epSendThread,
                        destroyedBy>>
    /\ UNCHANGED <<connReg, connUp, epFlagged, acceptToDelete, accClient,
                   accIpc, accServiceEndpoint, accServiceDisconnected,
                   accRun, accPc, queuedCount>>
    /\ UNCHANGED notAcceptVars

\* main of the router: waitForServiceDisconnected has returned and
\* NodeRouter::stop sets mRun to 0
NodeRouter_stop ==
    /\ accServiceDisconnected
    /\ accRun = 1
    /\ accRun' = 0
    /\ UNCHANGED <<connReg, connState, connUp, epFlagged, acceptToDelete,
                   epReceiveThread, epSendThread, accClient, accIpc,
                   accServiceEndpoint, accServiceDisconnected, accPc,
                   accHeld, queuedCount, destroyedBy>>
    /\ UNCHANGED notAcceptVars

NextAccept ==
    \/ \E c \in Conns, reg \in RegTypes : peerConnects(c, reg)
    \/ \E c \in Conns : peerDrops(c)
    \/ \E c \in Conns, readOk \in BOOLEAN : ListenServer_poll(c, readOk)
    \/ ListenServer_pollTimeout
    \/ ListenServer_pollThrows
    \/ threadProc_exit
    \/ destroyEndpoints_sweep
    \/ \E c \in Conns : epReceiveFails(c)
    \/ \E c \in Conns : epSendFails(c)
    \/ \E c \in Conns : routeFindPeer(c)
    \/ \E c \in Conns : routeReleasePeer(c)
    \/ NodeRouter_stop

SpecAccept == Init /\ [][NextAccept]_vars

\* ------------------------------------------------------------ properties
\* a modify or delete request reaches its state check
ModifyOrDeleteAt(s) ==
    \/ \E cfg \in Configs : asyncUpdateConfig(s, cfg)
    \/ (s \in mSessions /\ DELETE_session(s))

sessionUntouched(s) ==
    /\ mState'[s] = mState[s]
    /\ opThread'[s] = opThread[s]
    /\ opConfig'[s] = opConfig[s]
    /\ mComputations'[s] = mComputations[s]
    /\ children'[s] = children[s]

\* C1: for every session the state is Busy exactly when its one operation
\* thread (updateProc or deleteProc) is running, and the deleteProc that
\* shutdown_all runs on the session never overlaps an operation thread
C1_OneOperation ==
    \A s \in SessionIds :
        /\ (mState[s] = "Busy") = (opThread[s] \in {"updateProc", "deleteProc"})
        /\ ~(opThread[s] # "none" /\ sdCur = s /\ sdStage = "deleteProc")

\* an operation thread is running while shutdown_all waits on the session
C1_Witness ==
    \E s \in SessionIds :
        /\ mState[s] = "Busy" /\ opThread[s] = "updateProc"
        /\ sdCur = s /\ sdStage = "wait"
        /\ modifyPc[s] = "got"

StateStep(s, from, to) == mState[s] = from /\ mState'[s] = to

sameObject(s) == objSeq'[s] = objSeq[s]

\* C3 as stated: the only state changes are Free->Busy, Busy->Free and
\* Busy->Defunct
C3_Original ==
    [][\A s \in SessionIds :
         (sameObject(s) /\ mState'[s] # mState[s])
            => \/ StateStep(s, "Free", "Busy")
               \/ StateStep(s, "Busy", "Free")
               \/ StateStep(s, "Busy", "Defunct")
      ]_vars

\* C3 amended: the state changes are Free->Busy, Busy->Free, Busy->Defunct
\* and, when shutdown_all runs deleteProc on a session that is not Busy,
\* Free->Defunct; a Defunct session never changes state again
C3_Transitions ==
    [][\A s \in SessionIds :
         (sameObject(s) /\ mState'[s] # mState[s])
            => \/ StateStep(s, "Free", "Busy")
               \/ StateStep(s, "Busy", "Free")
               \/ StateStep(s, "Busy", "Defunct")
               \/ /\ StateStep(s, "Free", "Defunct")
                  /\ sdCur = s /\ sdStage = "deleteProc"
      ]_vars

\* a session that no delete request was accepted for is Defunct after
\* shutdown_all
C3_Witness ==
    \E s \in SessionIds :
        /\ mState[s] = "Defunct" /\ mShuttingDown[s]
        /\ sdPc = "returned"
        /\ nCreates = 1
        /\ lastResp = Resp("create", HTTP_OK)

\* C4 as stated: once shutdown_all has returned, and no 30 s wait of it
\* gave up, no child process of any session is running
C4_Original ==
    (sdPc = "returned" /\ ~timedOut) => \A s \in SessionIds : children[s] = {}

\* C5 as stated: a create for the id of a Defunct session is accepted
C5_Original ==
    [][\A s \in SessionIds :
         (CreateInsert(s) /\ s \in mSessions /\ mState[s] = "Defunct")
            => createPc'[s] = "waitAck"
      ]_vars

\* C5 amended: a create for an id whose session is still in the session
\* map, a Defunct one included, is rejected with 409 and spawns nothing;
\* the session and its computations stay as they were
C5_Rejected ==
    [][\A s \in SessionIds :
         (CreateInsert(s) /\ s \in mSessions)
            => /\ lastResp' = Resp("create", HTTP_RESOURCE_CONFLICT)
               /\ createPc'[s] = "idle"
               /\ mSessions' = mSessions
               /\ sessionUntouched(s)
      ]_vars

\* create, delete run to Defunct, then a second create answered 409
C5_Witness ==
    \E s \in SessionIds :
        /\ lastResp = Resp("create", HTTP_RESOURCE_CONFLICT)
        /\ s \in mSessions /\ mState[s] = "Defunct"
        /\ ~mClosed /\ createPc[s] = "idle" /\ nCreates = 2
        /\ mComputations[s] # {} /\ children[s] = {}

\* C10 as stated: a create goes past initializeSession, and a computation
\* of the session is spawned, only after the router has processed the
\* Initialize that this create sent
C10_Original ==
    [][\A s \in SessionIds :
         ((createPc[s] = "waitAck" /\ createPc'[s] = "idle")
             \/ ~(children'[s] \subseteq children[s]))
            => routerSeq[s] >= objSeq[s]
      ]_vars

\* C6 as stated: once the service has handled the client's "connected"
\* with no sessionExpired raised yet, none is raised for the session
C6_Original ==
    \A s \in SessionIds : connectedSeen[s] => expiredEvents[s] = 0

\* C7 as stated: a raised sessionExpired is the only one for the session
\* and leads to the session being Defunct
C7_Original ==
    /\ [](\A s \in SessionIds : expiredEvents[s] <= 1)
    /\ \A s \in SessionIds :
          (expiredEvents[s] = 1) ~> (mState[s] = "Defunct")

\* C7 amended: a deadline that is armed and neither cancelled nor destroyed
\* raises exactly one sessionExpired; the node forwards it to the
\* Coordinator as DELETE /sessions/<id> and does not itself change the
\* session's state, which becomes Defunct only through a deleteProc
C7_ExpiredForwarded ==
    /\ [](\A s \in SessionIds : expiredEvents[s] <= 1)
    /\ \A s \in SessionIds :
          (expThread[s] /\ mExpirationSet[s])
             ~> (expiredEvents[s] = 1 \/ ~mExpirationSet[s])
    /\ \A s \in SessionIds :
          (\E i \in DOMAIN mEventQueue : mEventQueue[i] = s)
             ~> (coordDeletes[s] > 0)
    /\ [][\A s \in SessionIds :
            /\ (expirationProc(s) \/ sendEventsProc) => mState'[s] = mState[s]
            /\ (sameObject(s) /\ mState[s] # "Defunct"
                  /\ mState'[s] = "Defunct")
                => opThread[s] = "deleteProc"
         ]_vars

\* the deadline expired, the Coordinator's delete was accepted and ran
C7_Witness ==
    \E s \in SessionIds :
        /\ expiredEvents[s] = 1 /\ ~connectedSeen[s]
        /\ mState[s] = "Defunct"
        /\ lastResp = Resp("delete", HTTP_OK)
        /\ coordDeletes[s] = 0 /\ mEventQueue = <<>>
        /\ nConnects = 0

\* no connection is waiting in a listen server and no endpoint is still
\* connecting
Settled ==
    \A n \in NodeIds :
        /\ dials[n] = 0
        /\ \A p \in mNodes[n] : p[2].pc # "connect"

\* C8: once connection attempts have settled each node tracks at most one
\* endpoint for the other node, and an endpoint that has a connection has
\* one that the node with the greater id initiated
C8_TieBreak ==
    Settled =>
        \A n \in NodeIds :
            /\ Cardinality(findNodePeer(n, otherNode(n))) <= 1
            /\ \A p \in findNodePeer(n, otherNode(n)) :
                  p[2].mPeer # "none" =>
                     p[2].mPeer = IF otherNode(n) < n THEN "own" ELSE "remote"

\* both nodes dialled at once; each ends with one endpoint, on a connection
\* that the greater node made
C8_Witness ==
    /\ Settled
    /\ \A n \in NodeIds :
          \E p \in mNodes[n] :
             /\ mNodes[n] = {p}
             /\ p[2].kind = "out" /\ p[2].pc = "send" /\ ~p[2].flagged
             /\ p[2].mPeer = IF otherNode(n) < n THEN "own" ELSE "remote"

IsPrefix(a, b) ==
    /\ Len(a) <= Len(b)
    /\ \A i \in 1..Len(a) : a[i] = b[i]

from(seq, src) == SelectSeq(seq, LAMBDA env : env.from = src)

\* C9: for each sender the envelopes the receiving peer has read from the
\* endpoint are a prefix of the envelopes queued to the endpoint for that
\* sender: none reordered, none delivered twice
C9_Prefix ==
    \A src \in Senders : IsPrefix(from(observed, src), from(enqueued, src))

\* two envelopes of one sender were read in order while a later envelope
\* is still queued
C9_Witness ==
    /\ \E src \in Senders : Len(from(observed, src)) >= 2
    /\ Len(enqueued) > Len(observed)
    /\ mMessageQueue # <<>>

\* C11: every entry of the registry refers to an endpoint that exists and
\* that was constructed for the id it is filed under, so a lookup by a
\* registered peer's id returns that peer; an endpoint that has been
\* destroyed is in no table and in no routing thread's hands
C11_Registry ==
    /\ \A s \in SessionIds :
          mClients[s] # NoPeer =>
             mClients[s] \in live /\ ident[mClients[s]] = <<"client", s>>
    /\ \A c \in CompIds :
          mIpc[c] # NoPeer =>
             mIpc[c] \in live /\ ident[mIpc[c]] = <<"computation", c>>
    /\ holders \subseteq live
    /\ mFlaggedForDestruction \subseteq live

\* a flagged endpoint was untracked and destroyed by destroyEndpoints while
\* the session's client is registered and a routing thread holds a
\* computation's endpoint
C11_Witness ==
    /\ mEndpointsToDelete = <<>>
    /\ \E a \in Addrs : a \notin live /\ ident[a][1] = "computation"
    /\ \E s \in SessionIds : mClients[s] # NoPeer
    /\ \E c \in CompIds : mIpc[c] \in holders
    /\ mFlaggedForDestruction = {}

\* C12: for every destination of the routed envelope: a null node id puts
\* the envelope once on the client's queue of the entry node, or once in
\* the stash when no client is connected (a node that is not the entry
\* node forwards it once to the entry node); the local node with a
\* computation id puts it once on that computation's endpoint; another
\* node id puts one envelope on that node's endpoint, whose destinations
\* are the envelope's destinations for that node
C12_Routing ==
    \A i \in DOMAIN rtTo :
        LET a == rtTo[i] IN
        /\ a.node = NullId =>
              IF rtEntry = LocalNode
              THEN /\ outClient = (IF rtClient THEN 1 ELSE 0)
                   /\ outStash = (IF rtClient THEN 0 ELSE 1)
              ELSE /\ outClient = 0 /\ outStash = 0
                   /\ Len(outNode[rtEntry]) = 1
                   /\ outNode[rtEntry][1][Len(outNode[rtEntry][1])]
                         = entryNodeAddr
        /\ (a.node = LocalNode /\ a.computation \in rtIpc) =>
              outIpc[a.computation] = 1
        /\ a.node \notin {NullId, LocalNode} =>
              /\ Len(outNode[a.node]) = 1
              /\ \A j \in DOMAIN outNode[a.node][1] :
                    outNode[a.node][1][j].node \in
                       {a.node} \cup (IF a.node = rtEntry THEN {NullId} ELSE {})
              /\ SelectSeq(outNode[a.node][1], LAMBDA b : b.node = a.node)
                    = SelectSeq(rtTo, LAMBDA b : b.node = a.node)

\* an envelope for a local computation and a remote node was routed
C12_Witness ==
    /\ Len(rtTo) = 2
    /\ rtTo[1].node = LocalNode /\ rtTo[1].computation \in rtIpc
    /\ rtTo[2].node = "n2"
    /\ outIpc[rtTo[1].computation] = 1
    /\ outNode["n2"] = <<(<<rtTo[2]>>)>>
    /\ outClient = 0 /\ outStash = 0

\* the events that were pushed and are still in the queue
waiting == {evQueue[i].id : i \in DOMAIN evQueue}

\* C13 as stated: no event is requested twice and, once the worker has
\* ended, no event is left in the queue without its request; the worker
\* writes no undelivered-event line, so nothing else accounts for such an
\* event
C13_Original ==
    /\ \A e \in 1..MaxEvents : requests[e] <= 1
    /\ evPc = "exit" => \A e \in waiting : requests[e] = 1

\* the entry of source a is gone or older than the window
silent(a) ==
    \/ mBanListMap[a] = NoEntry
    \/ now - mBanListMap[a].timeStamp > mSecToUnBan

\* C14: a GET to an unknown path returns 404 while fewer than five such
\* requests of the source are counted, the next one returns 429, and once
\* more than 300 s have passed without one the next returns 404 again
C14_FiveThenBan ==
    [][\A a \in Sources :
         handleGet(a, FALSE) =>
            /\ lastCode' = IF ~silent(a) /\ Len(tracked[a]) >= mCountToBan
                           THEN HTTP_TOO_MANY_REQUESTS
                           ELSE HTTP_NOT_FOUND
            /\ silent(a) => tracked'[a] = <<now>>
            /\ Len(tracked'[a]) <= mCountToBan
      ]_vars

\* five unknown GETs within 300 s were counted and the sixth got 429
C14_Witness ==
    \E a \in Sources :
        /\ lastCode = HTTP_TOO_MANY_REQUESTS
        /\ lastReq = [source |-> a, method |-> "GET", mapped |-> FALSE]
        /\ Len(tracked[a]) = mCountToBan
        /\ tracked[a][mCountToBan] - tracked[a][1] <= mSecToUnBan
        /\ mBanListMap[a].count = mCountToBan + 1

\* C15 as stated: a 429 is given only when at least the threshold of
\* counted requests lie within 300 s of the first one counted
C15_Original ==
    [][\A a \in Sources, mapped \in BOOLEAN :
         (handleGet(a, mapped) /\ lastCode' = HTTP_TOO_MANY_REQUESTS) =>
            Cardinality({i \in DOMAIN tracked[a] :
                            tracked[a][i] - tracked[a][1] <= mSecToUnBan})
               >= mCountToBan
      ]_vars

\* C15 amended: a 429 is given only when at least the threshold of
\* unknown-endpoint requests is counted, each within 300 s of the one
\* before it: the window restarts at every counted request
C15_LatestStamp ==
    [][\A a \in Sources, mapped \in BOOLEAN :
         (handleGet(a, mapped) /\ lastCode' = HTTP_TOO_MANY_REQUESTS) =>
            /\ Len(tracked[a]) >= mCountToBan
            /\ \A i \in 1..(Len(tracked[a]) - 1) :
                  tracked[a][i + 1] - tracked[a][i] <= mSecToUnBan
      ]_vars

\* a 429 after five counted requests that span more than 300 s
C15_Witness ==
    \E a \in Sources :
        /\ lastCode = HTTP_TOO_MANY_REQUESTS
        /\ Len(tracked[a]) = mCountToBan
        /\ tracked[a][mCountToBan] - tracked[a][1] > mSecToUnBan

\* the source has been refused and its ban has not expired
banned(a) ==
    /\ mBanListMap[a].count > mCountToBan
    /\ ~hasExpired(mBanListMap[a].timeStamp)

\* C16 as stated: every request of a banned source is refused with 429
C16_Original ==
    [][\A a \in Sources, method \in Methods, mapped \in BOOLEAN :
         (banned(a) /\ (handleGet(a, mapped) \/ handleOther(a, method, mapped)))
            => lastCode' = HTTP_TOO_MANY_REQUESTS
      ]_vars

\* C16 amended: every GET of a banned source, to any path, is refused with
\* 429 until more than 300 s have passed since the ban began, and leaves
\* the entry as it is; PUT, POST and DELETE requests are not checked
\* against the ban list and are never answered 429
C16_GetRefused ==
    [][\A a \in Sources, method \in Methods, mapped \in BOOLEAN :
         /\ (banned(a) /\ handleGet(a, mapped)) =>
               /\ lastCode' = HTTP_TOO_MANY_REQUESTS
               /\ mBanListMap' = mBanListMap
         /\ (mBanListMap[a].count > mCountToBan /\ ~banned(a)
               /\ handleGet(a, mapped)) =>
               lastCode' # HTTP_TOO_MANY_REQUESTS
         /\ handleOther(a, method, mapped) =>
               lastCode' # HTTP_TOO_MANY_REQUESTS
      ]_vars

\* a GET to a mapped path is refused some time into the ban
C16_Witness ==
    \E a \in Sources :
        /\ lastCode = HTTP_TOO_MANY_REQUESTS
        /\ lastReq = [source |-> a, method |-> "GET", mapped |-> TRUE]
        /\ mBanListMap[a].count = mCountToBan + 1
        /\ now > mBanListMap[a].timeStamp

\* the control messages of a computation are well formed: nothing, or one
\* "go" followed by "update"s only
goThenUpdates(q) ==
    q = <<>> \/ (q[1] = "go" /\ \A i \in 2..Len(q) : q[i] = "update")

\* C17 as stated: after n accepted signal("run") calls every computation of
\* the session has been sent n control messages, "go" by the first call and
\* "update" by each later one
C17_Original ==
    \A c \in sesComputations :
        /\ Len(control[c]) = nSignals
        /\ goThenUpdates(control[c])

\* C17: an accepted signal("run") sends one control message to each
\* computation of the session whose process is in state Spawned and none to
\* any other; the message is "go" if the computation has been sent nothing
\* yet and "update" otherwise; so no computation is sent "go" twice and none
\* is sent "update" before "go"
C17_GoOnceThenUpdate ==
    /\ [][(Session_signal("run") /\ sesResp'.code = HTTP_OK) =>
            \A c \in Computations :
               control'[c] =
                  IF c \in sesComputations /\ processState[c] = "Spawned"
                  THEN Append(control[c],
                              IF control[c] = <<>> THEN "go" ELSE "update")
                  ELSE control[c] ]_vars
    /\ [](\A c \in Computations : goThenUpdates(control[c]))

\* two run signals were accepted; one computation got "go" then "update",
\* another, started by a modify in between, got its "go" from the second
C17_Witness ==
    /\ nSignals = 2
    /\ \E c, d \in sesComputations :
          /\ control[c] = <<"go", "update">>
          /\ control[d] = <<"go">>

\* what is known of one computation's process and of what was sent to it
compView(c) ==
    <<processState[c], terminateCalls[c], spawnCalls[c], control[c], mSentGo[c]>>

\* C19: when updateProc applies a config to a session, a computation the
\* session holds that the config names too (B) is left untouched: its
\* process is neither terminated nor spawned again and it is sent nothing;
\* every computation the session holds that the config does not name (A) is
\* told to terminate; a computation that the config names and the session
\* does not hold (C) is spawned only once every such A has exited; and when
\* the operation does not fail, every such A has exited and every such C
\* is spawned, once
C19_ModifyFrame ==
    [][\A late \in SUBSET Computations, k \in 0..Cardinality(Computations) :
         Session_updateProc(late, k) =>
            /\ \A b \in sesComputations \cap sesConfig :
                  compView(b)' = compView(b)
            /\ \A a \in sesComputations \ sesConfig :
                  /\ terminateCalls'[a] = terminateCalls[a] + 1
                  /\ spawnCalls'[a] = spawnCalls[a]
            /\ \A c \in sesConfig \ sesComputations :
                  /\ terminateCalls'[c] = terminateCalls[c]
                  /\ spawnCalls'[c] > spawnCalls[c] =>
                        \A a \in sesComputations \ sesConfig :
                            processState'[a] = "Terminated"
                  /\ opFailed' = opFailed =>
                        /\ processState'[c] = "Spawned"
                        /\ spawnCalls'[c] = spawnCalls[c] + 1
            /\ opFailed' = opFailed =>
                  \A a \in sesComputations \ sesConfig :
                      processState'[a] = "Terminated" ]_vars

\* a session created with {A, B} was modified to {B, C}: A was told to stop
\* and has exited, C is spawned, B runs on as it was, with its "go"
C19_Witness ==
    /\ nOps = 2
    /\ sesThread = "none"
    /\ sesConfig = {"B", "C"}
    /\ sesComputations = {"A", "B", "C"}
    /\ processState = [c \in Computations |->
                         IF c = "A" THEN "Terminated" ELSE "Spawned"]
    /\ terminateCalls = [c \in Computations |-> IF c = "A" THEN 1 ELSE 0]
    /\ spawnCalls = [c \in Computations |-> 1]
    /\ control["B"] = <<"go">>
    /\ control["C"] = <<>>
    /\ opFailed = 0

\* C20: when the updateProc of a create stops at a spawn that fails, one
\* sessionOperationFailed event is raised, the computations it had spawned
\* by then are in mComputations with their processes running and not told
\* to terminate, and the session is Free again; and a delete request that
\* finds the session Free is accepted and starts deleteProc
C20_SpawnFailure ==
    /\ [][\A k \in 0..Cardinality(Computations) :
            (/\ Session_updateProc({}, k)
             /\ sesOp = "create"
             /\ k < Cardinality(sesConfig \ sesComputations)) =>
               /\ opFailed' = opFailed + 1
               /\ sesState' = "Free"
               /\ Cardinality(sesComputations') = k
               /\ \A c \in Computations :
                     spawnCalls'[c] > spawnCalls[c] =>
                        /\ c \in sesComputations'
                        /\ processState'[c] = "Spawned"
                        /\ terminateCalls'[c] = terminateCalls[c] ]_vars
    /\ [][(Session_asyncDelete /\ sesState = "Free") =>
            /\ sesResp' = Resp("delete", HTTP_OK)
            /\ sesThread' = "deleteProc" ]_vars

\* a create spawned some of its computations and failed at the next; the
\* delete that followed has been accepted and the spawned ones still run
C20_Witness ==
    /\ nOps = 1
    /\ opFailed = 1
    /\ sesThread = "deleteProc"
    /\ sesResp = Resp("delete", HTTP_OK)
    /\ sesComputations # {}
    /\ sesConfig \ sesComputations # {}
    /\ \A c \in sesComputations : processState[c] = "Spawned"

\* C18 as stated: once updateTags(T) and then deleteTags(keys(T)) have been
\* performed, the tag set is what it was before updateTags(T)
C18_Original ==
    tagPair.pc \in {"deleted", "refused"} => mNodeInfoTags = tagPair.prior

\* C18: an accepted updateTags(T) followed by deleteTags(keys(T)) leaves
\* the tag set without the keys of T and with every other tag as it was;
\* when no key of T was in the tag set before, the deleteTags is not
\* refused as invalid and the tag set is what it was before updateTags(T)
C18_DisjointRestores ==
    /\ tagPair.pc = "deleted" =>
          mNodeInfoTags = removeTags(tagPair.prior, tagPair.keys)
    /\ tagPair.keys \cap keys(tagPair.prior) = {} =>
          /\ tagPair.pc # "refused"
          /\ tagPair.pc = "deleted" => mNodeInfoTags = tagPair.prior

\* a tag set with tags in it got two new tags and lost them again
C18_Witness ==
    /\ tagPair.pc = "deleted"
    /\ Cardinality(tagPair.keys) = 2
    /\ keys(tagPair.prior) # {}
    /\ tagPair.keys \cap keys(tagPair.prior) = {}
    /\ mNodeInfoTags = tagPair.prior

\* a request on a session in the map: a modify, delete or signal reaches
\* the session's state check
OperationAt(s) ==
    \/ \E cfg \in Configs : asyncUpdateConfig(s, cfg)
    \/ (s \in mSessions /\ DELETE_session(s))
    \/ (s \in mSessions /\ signalSession(s))

C22_OrderlyExit ==
    /\ (svcLink = "lost") ~> (mainPc = "returned")
    /\ [](mainPc # "waitForServiceDisconnected" =>
             (mServiceDisconnected /\ svcLink = "lost" /\ svcFlagged))
    /\ [](mainPc = "returned" =>
             (mRun = 0 /\ mThread = "exited"
                /\ mServiceToRouterThread = "exited"))

\* the connection was lost and the router has gone through its exit
C22_Witness ==
    /\ svcLink = "lost"
    /\ mainPc = "returned"
    /\ mThread = "exited"
    /\ mServiceToRouterThread = "exited"

\* C23: the Coordinator requests are submitted in the order in which their
\* events were pushed: the events with a request, in request order, have
\* increasing push numbers, and each event has one request at most
C23_EnqueueOrder ==
    /\ \A i, j \in DOMAIN issued : i < j => issued[i] < issued[j]
    /\ \A e \in 1..MaxEvents :
          requests[e] = Cardinality({i \in DOMAIN issued : issued[i] = e})

\* three events were pushed before the first was popped, and the requests
\* for all three have been submitted
C23_Witness ==
    /\ issued = <<1, 2, 3>>
    /\ evQueue = <<>>
    /\ evPc = "pop"

\* C24: when the receiveThread of a NODE peer's endpoint reads a data
\* envelope whose session has no routing data in the RoutingTable, the
\* envelope is dropped (not routed); the endpoint is not flagged for
\* destruction by it and its receiveThread goes on polling
C24_UnknownSessionDropped ==
    [][(/\ nodeReceiveThreadStep
        /\ nodeInbox # <<>>
        /\ Head(nodeInbox).classId = "data"
        /\ Head(nodeInbox).session \notin mRoutingTable) =>
           /\ nodeLog' = Append(nodeLog, "dropped")
           /\ nodeInbox' = Tail(nodeInbox)
           /\ nodeFlagged' = nodeFlagged
           /\ nodeReceiveThread' = "poll" ]_vars

\* a data envelope for a session without routing data was dropped, and the
\* next envelope from the same peer was read and routed
C24_Witness ==
    /\ Len(nodeLog) >= 2
    /\ nodeLog[1] = "dropped"
    /\ nodeLog[2] = "routed"
    /\ ~nodeFlagged
    /\ nodeReceiveThread = "poll"

\* C25: when the updateProc of a modify ends without an exception, the
\* computations the session holds are those of the new definition, and
\* every computation of the definition that an earlier modify had removed
\* is spawned again
C25_Original ==
    [][\A late \in SUBSET Computations, k \in 0..Cardinality(Computations) :
         (/\ Session_updateProc(late, k)
          /\ sesOp = "modify"
          /\ opFailed' = opFailed) =>
            /\ sesComputations' = sesConfig
            /\ \A c \in sesConfig :
                  processState[c] = "Terminated" =>
                      /\ spawnCalls'[c] = spawnCalls[c] + 1
                      /\ processState'[c] = "Spawned" ]_vars

\* a modify that lists a computation an earlier modify had removed has ended
\* without an exception, and the computation has not been spawned again
C25_RelistedNotSpawned ==
    /\ nOps = 3
    /\ sesThread = "none"
    /\ sesState = "Free"
    /\ opFailed = 0
    /\ sesConfig = {"A", "B"}
    /\ processState["B"] = "Terminated"
    /\ spawnCalls["B"] = 1
    /\ terminateCalls["B"] = 1

\* the envelopes of a sequence, and whether a sequence keeps the order in
\* which the envelopes were stashed
Range(q) == {q[i] : i \in DOMAIN q}
inStashOrder(q) ==
    \A i, j \in DOMAIN q :
        i < j => \E a, b \in DOMAIN stashed :
                    a < b /\ stashed[a] = q[i] /\ stashed[b] = q[j]
isPrefix(p, q) == Len(p) <= Len(q) /\ \A i \in DOMAIN p : p[i] = q[i]

\* C26 as stated: when the client connects, every envelope stashed for it
\* that no connection has been given yet is put on its queue, the queue is
\* in the order stashed, and what is on a client's queue stays ahead of what
\* is routed later
C26_Original ==
    [][/\ trackClient =>
           /\ \A e \in Range(stashed) :
                 (\A c \in ClientConns : e \notin Range(clientQueue[c]))
                     => e \in Range(clientQueue'[nClientConns + 1])
           /\ inStashOrder(clientQueue'[nClientConns + 1])
       /\ \A c \in ClientConns : isPrefix(clientQueue[c], clientQueue'[c])
      ]_vars

\* C26, amended: when the client connects, the envelopes in the stash at
\* that moment (kickClient with no client registered empties the stash, and
\* what it cleared is not delivered) are put on the client's queue in the
\* order stashed and ahead of anything else; what is on a client's queue
\* stays ahead of what is routed later; and no envelope is stashed behind a
\* registered client's back: while a client is registered every envelope in
\* the stash is on its queue
C26_StashDrained ==
    /\ [][/\ trackClient =>
              /\ clientQueue'[nClientConns + 1] = mPendingEnvelopes
              /\ inStashOrder(mPendingEnvelopes)
          /\ \A c \in ClientConns : isPrefix(clientQueue[c], clientQueue'[c])
         ]_vars
    /\ [](mClient # NoClient =>
              Range(mPendingEnvelopes) \subseteq Range(clientQueue[mClient]))

\* two envelopes were stashed, the client connected and was given both in
\* the order stashed, and an envelope routed after the connect is behind them
C26_Witness ==
    /\ mClient = 1
    /\ stashed = <<1, 2>>
    /\ clientQueue[1] = <<1, 2, 3>>

\* C27: when a client connects, no envelope it is handed from the stash has
\* been handed to an earlier client connection
C27_Original ==
    [][trackClient =>
           \A c \in ClientConns :
               Range(clientQueue[c]) \cap Range(clientQueue'[nClientConns + 1])
                   = {}]_vars

\* a stashed envelope is on the queues of two client connections
C27_HandedTwice ==
    /\ stashed # <<>>
    /\ stashed[1] \in Range(clientQueue[1])
    /\ stashed[1] \in Range(clientQueue[2])

\* C28: once syncShutdown has set mShuttingDown of a session, no operation
\* thread (updateProc of a create or modify, deleteProc of a delete) is
\* started on it; syncShutdown enters its own deleteProc only with the
\* session not Busy and its operation thread over; and a syncShutdown that
\* ends without having entered deleteProc has timed out on a session that
\* was still Busy
C28_ShutdownExcludes ==
    /\ [][\A s \in SessionIds :
            /\ (mShuttingDown[s] /\ mShuttingDown'[s]) =>
                   /\ opThread'[s] \in {opThread[s], "none"}
                   /\ (mState'[s] = "Busy" => mState[s] = "Busy")
            /\ (sdCur = s /\ sdStage = "wait" /\ sdStage' = "deleteProc") =>
                   /\ mState[s] # "Busy"
                   /\ opThread[s] = "none"
            /\ (sdCur = s /\ sdStage = "wait" /\ sdCur' # s) =>
                   /\ mState[s] = "Busy"
                   /\ timedOut'
                   /\ children'[s] = children[s]
         ]_vars
    /\ [](\A s \in SessionIds :
            (sdCur = s /\ sdStage = "deleteProc") =>
                /\ mShuttingDown[s]
                /\ mState[s] # "Busy"
                /\ opThread[s] = "none")

\* syncShutdown of a session has entered its deleteProc after a modify was
\* refused because the session was shutting down, and the session has
\* computations that an earlier operation started
C28_Witness ==
    \E s \in SessionIds :
        /\ sdCur = s
        /\ sdStage = "deleteProc"
        /\ lastResp = Resp("modify", HTTP_INTERNAL_SERVER_ERROR)
        /\ mComputations[s] # {}

C30_Original ==
    [][Session_signal_apply => (sesState # "Busy" /\ sesThread = "none")]_vars

\* a "run" signal passed checkIsFree, a modify started, and the signal sent
\* "go" while the session was Busy with the modify
C30_AppliedWhileBusy ==
    /\ sesState = "Busy"
    /\ sesThread = "updateProc"
    /\ sesOp = "modify"
    /\ signalPc = "none"
    /\ nSignals = 1
    /\ \E c \in sesComputations : control[c] = <<"go">>

\* C31: expirationProc raises no sessionExpired for a session whose delete
\* has been accepted: none while its deleteProc runs, none once it is
\* Defunct
C31_Original ==
    [][\A s \in SessionIds :
         expirationProc(s) =>
            /\ opThread[s] # "deleteProc"
            /\ mState[s] # "Defunct" ]_vars

\* the session is Defunct after an accepted delete, and a sessionExpired
\* raised for it since is queued for the Coordinator
C31_ExpiredAfterDelete ==
    \E s \in SessionIds :
        /\ s \in mSessions
        /\ mState[s] = "Defunct"
        /\ lastResp = Resp("delete", HTTP_OK)
        /\ expiredEvents[s] = 1
        /\ mEventQueue = <<s>>

\* C32: the computationReady event of a computation is raised only with the
\* computation registered in mIpc, and no "go" sent in response finds the
\* computation missing from the registry
C32_Original ==
    /\ [][handleMessage_computationReady =>
             Head(readyToService) \in ipcTracked]_vars
    /\ [](goNotFound = {})

\* every computation's computationReady was raised, the "go" for one of them
\* reached the router before the IPC filter had registered it and was
\* dropped
C32_GoDropped ==
    /\ readyEvents = Computations
    /\ runSignalled
    /\ goNotFound # {}

\* C33: one client connection gives rise to at most one
\* sessionClientDisconnected event and at most one session delete request
\* to the Coordinator
C33_Original ==
    /\ nDisconnectedNotified <= 1
    /\ disconnectedEvents <= 1
    /\ terminateRequests <= 1

\* the client sent "disconnect" and closed its socket with an envelope
\* still queued for it: the control message, the receive thread and the
\* send thread each notified the service, and three delete requests went
\* to the Coordinator
C33_ThreeRequests ==
    /\ cliSentDisconnect
    /\ cliLink = "closed"
    /\ cliReceiveThread = "exited"
    /\ cliSendThread = "exited"
    /\ terminateRequests = 3

\* C34: every stopRunning() request, whichever caller made it and whether it
\* came before or after run() began to wait, is eventually followed by run()
\* having shut the sessions down, drained the events, deregistered and
\* returned.
C34_Original ==
    (stopRequested # {}) ~> (runPc = "returned")

\* the request was made before run() took the lock: run() has overwritten it
\* and waits with mRun true
C34_StopLost ==
    /\ stopRequested # {}
    /\ runPc = "waiting"
    /\ nodeRunFlag

\* C35: once the node with the lesser id has an endpoint for the other node
\* that is still connecting or waiting for its connection, that endpoint
\* eventually has a connection to send on or is destroyed.
C35_Original ==
    (\E p \in mNodes[LesserNode] : p[2].pc \in {"connect", "wait"})
        ~> (\A p \in mNodes[LesserNode] : p[2].pc = "send")

\* the lesser node's endpoint waits for a connection after the greater node
\* has turned its registration down without dialing back
C35_WaitsUnanswered ==
    /\ \E p \in mNodes[LesserNode] :
          p[2].pc = "wait" /\ p[2].mPeer = "none" /\ ~p[2].flagged
    /\ connectLog[otherNode(LesserNode)] = "BadNodeConnection"
    /\ mNodes[otherNode(LesserNode)] = {}
    /\ \A n \in NodeIds : dials[n] = 0

\* C36: a failure in one peer's accept filter turns that peer down, and a
\* failure in the receive or send thread of a peer that is not the control
\* link flags that peer for destruction; either leaves every other peer as
\* it was, the accept thread in its loop, mRun set and the control link not
\* reported lost. The router is stopped only after the control link was
\* lost, which only a failure on the control endpoint reports.
C36_PeerFailureContained ==
    /\ [][\A c \in Conns :
            /\ (\E readOk \in BOOLEAN :
                   ListenServer_poll(c, readOk) /\ filterRefuses(c, readOk))
                  => /\ connState'[c] = "refused"
                     /\ accPc' = "destroyEndpoints"
                     /\ accRun' = accRun
                     /\ accServiceDisconnected' = accServiceDisconnected
                     /\ epFlagged' = epFlagged
                     /\ \A d \in Conns \ {c} : connState'[d] = connState[d]
            /\ ((epReceiveFails(c) \/ epSendFails(c)) /\ connReg[c] # "control")
                  => /\ epFlagged'[c]
                     /\ accPc' = accPc
                     /\ accRun' = accRun
                     /\ accServiceDisconnected' = accServiceDisconnected
                     /\ connState' = connState
                     /\ \A d \in Conns \ {c} : epFlagged'[d] = epFlagged[d]
         ]_vars
    /\ [](accRun = 0 => accServiceDisconnected)
    /\ [](accServiceDisconnected =>
             /\ accServiceEndpoint # NoConn
             /\ epFlagged[accServiceEndpoint]
             /\ ~connUp[accServiceEndpoint])

\* one connection was turned down by the filter chain and another peer,
\* not the control link, was flagged after its connection was lost, and the
\* accept thread is in its loop with the router running
C36_Witness ==
    \E c, d \in Conns :
        /\ connState[c] = "refused"
        /\ connState[d] = "tracked" /\ connReg[d] # "control"
        /\ epFlagged[d] /\ epReceiveThread[d] = "exited"
        /\ accPc = "poll"
        /\ accRun = 1
        /\ ~accServiceDisconnected

\* C37: at most one endpoint is tracked as the session's client and at most
\* one as the control peer, and a client connection for the session that has
\* a client peer, or a CONTROL connection when the service endpoint is set,
\* is refused and its socket closed, with the existing peer, the registry
\* and every other connection left as they were.
C37_OneClientOneControl ==
    /\ [](/\ Cardinality({c \in Conns : connState[c] = "tracked"
                                          /\ connReg[c] = "client"}) <= 1
          /\ Cardinality({c \in Conns : connState[c] = "tracked"
                                          /\ connReg[c] = "control"}) <= 1)
    /\ [][\A c \in Conns :
            (/\ ListenServer_poll(c, TRUE)
             /\ \/ connReg[c] = "client" /\ accClient # NoConn
                \/ connReg[c] = "control" /\ accServiceEndpoint # NoConn)
               => /\ connState'[c] = "refused"
                  /\ ~connUp'[c]
                  /\ accClient' = accClient
                  /\ accServiceEndpoint' = accServiceEndpoint
                  /\ \A d \in Conns \ {c} :
                        /\ connState'[d] = connState[d]
                        /\ connUp'[d] = connUp[d]
                        /\ epFlagged'[d] = epFlagged[d]
         ]_vars

\* a second connection of the kind was refused while the first is the
\* tracked client or control peer
C37_Witness ==
    \E c, d \in Conns :
        /\ connReg[c] = connReg[d]
        /\ connReg[c] \in {"client", "control"}
        /\ connState[c] = "tracked"
        /\ c \in {accClient, accServiceEndpoint}
        /\ connUp[c]
        /\ connState[d] = "refused"

\* C40 as stated: no endpoint is pushed on the deletion queue twice, and an
\* endpoint is destroyed by the sweep of the accept thread and by nothing
\* else.
C40_Original ==
    \A c \in Conns :
        /\ queuedCount[c] <= 1
        /\ destroyedBy[c] \in {"none", "sweep"}

\* C40: no endpoint is pushed on the deletion queue twice; an endpoint
\* leaves the registry only in a step of the accept thread, the sweep or a
\* trackIpc that replaces its entry; and a routing thread destroys an
\* endpoint only when the registry has let go of it while the thread held
\* its Ptr.
C40_QueuedOnceUntrackedByAccept ==
    /\ [](\A c \in Conns : queuedCount[c] <= 1)
    /\ [][\A c \in Conns :
            /\ (connState[c] = "tracked" /\ connState'[c] # "tracked")
                  => \/ destroyEndpoints_sweep
                     \/ \E d \in Conns, readOk \in BOOLEAN :
                           ListenServer_poll(d, readOk)
            /\ (destroyedBy[c] # "routing" /\ destroyedBy'[c] = "routing")
                  => connState[c] = "released" /\ routeReleasePeer(c)
         ]_vars

\* an endpoint whose receive and send thread have both flagged it is on
\* the queue once, and another was destroyed by a routing thread
C40_Witness ==
    \E c, d \in Conns :
        /\ connState[c] = "tracked"
        /\ epReceiveThread[c] = "exited" /\ epSendThread[c] = "exited"
        /\ queuedCount[c] = 1
        /\ acceptToDelete = <<c>>
        /\ destroyedBy[d] = "routing"

\* C38: the update thread runs exactly while mNodeInfoIsUpdating is set, an
\* update or delete thread is started only when none is running, and an
\* updateTags or deleteTags request made while one is running is answered
\* 409 and leaves the tags, the running thread and its argument as they
\* were; the requests are those whose body is a tags object or a list of
\* names.
C38_OneTagUpdateAtATime ==
    /\ [](mNodeInfoIsUpdating <=> mNodeInfoUpdateThread # "none")
    /\ [][(mNodeInfoUpdateThread' # mNodeInfoUpdateThread
              /\ mNodeInfoUpdateThread' # "none")
             => mNodeInfoUpdateThread = "none"]_vars
    /\ [][(/\ mNodeInfoUpdateThread # "none"
           /\ \/ \E tags \in TagObjects : updateTags(tags)
              \/ \E names \in SUBSET TagNames : deleteTags(names))
             => /\ tagCode' = HTTP_RESOURCE_CONFLICT
                /\ mNodeInfoTags' = mNodeInfoTags
                /\ mNodeInfoUpdateThread' = mNodeInfoUpdateThread
                /\ tagArg' = tagArg]_vars

\* a request was answered 409 while the update thread of an earlier one,
\* which changes the tags, has not finished
C38_Witness ==
    /\ tagCode = HTTP_RESOURCE_CONFLICT
    /\ mNodeInfoUpdateThread = "updateTagsProc"
    /\ mNodeInfoIsUpdating
    /\ mergeTags(mNodeInfoTags, tagArg) # mNodeInfoTags

\* C39 as stated: when shutdownAll comes to a session that is already
\* Defunct, its deleteProc sends the router nothing more for that session:
\* no message to kick the client and no routing-data Delete.
C39_Original ==
    [][\A s \in SessionIds, stopped \in BOOLEAN :
         (SyncShutdownDeleteProc(s, stopped) /\ mState[s] = "Defunct")
            => svcToRouter' = svcToRouter]_vars

\* shutdownAll has run deleteProc on a session that a delete request had
\* made Defunct: the router was sent the kick and the Delete a second time
C39_TornDownTwice ==
    \E s \in SessionIds :
        /\ sdPc = "returned"
        /\ mState[s] = "Defunct"
        /\ lastResp = Resp("delete", HTTP_OK)
        /\ Len(SelectSeq(svcToRouter,
                         LAMBDA m : m.type = "Delete" /\ m.sid = s)) = 2
        /\ Len(SelectSeq(svcToRouter,
                         LAMBDA m : m.type = "Kick" /\ m.sid = s)) = 2

====
